---- MODULE Spec2Model ----
(***************************************************************************)
(* Neo Enigma code obfuscator: the cipher engine of src/src/extension.ts   *)
(* (Keyboard, Plugboard, Rotor, Reflector, Enigma) and the text codec      *)
(* enigmaObfuscate that drives it over a character stream; the text passes *)
(* applyVariableHiding, injectJunkCode, interleaveCode, removeObfuscation  *)
(* with the regular expressions they use; and the workspace batch          *)
(* processFilesUsingEnigma with the CodeAnalyzer of src/src/ml.            *)
(*                                                                         *)
(* Characters are one-character strings, texts and configuration fields    *)
(* are sequences of characters, signals are the 0-based positions 0..25    *)
(* the code uses (a sequence s is read at s[signal + 1]).                  *)
(***************************************************************************)
EXTENDS Integers, Sequences, FiniteSets, TLC

VARIABLES
    pairsStr,     \* argument of a Plugboard construction
    plugboard,    \* the Plugboard object built from pairsStr
    config,       \* the configuration record handed to enigmaObfuscate
    enigma,       \* the Enigma object: re, r1, r2, r3, pb (kb is stateless)
    pc,           \* position of the caller
    calls,        \* number of encipher calls made on the current engine
    last,         \* input letter and return value of the latest encipher call
    text,         \* argument `text` of the running enigmaObfuscate invocation
    obfuscate,    \* argument `obfuscate` of the running invocation
    idx,          \* number of characters of text the loop has consumed
    transformed,  \* local `transformed` of the running invocation
    log,          \* completed invocations: <<[text, obfuscate, out]>>
    source,       \* a code text handed to the text passes
    passes,       \* the passes applied to it so far: <<[pass, out]>>
    codeAnalyzer, \* the module-level `codeAnalyzer` of extension.ts
    files,        \* the workspace files a batch finds
    cursor,       \* number of files the loop of a batch has gone through
    console,      \* files for which the loop called console.error
    workspaceFolders, \* whether vscode.workspace.workspaceFolders is defined
    analysis,     \* local `analysis` of the loop body
    steps,        \* the calls made for the file the loop is at, in order
    script,       \* a program flattenControlFlow emitted, as the engine running it parsed it
    state,        \* the variable `state` of that program
    visited,      \* the case labels that program has entered, in order
    secrets,      \* context.secrets: the value stored under 'enigmaAutoPassphrase'
    disk,         \* the text of the configuration file handlers write and read
    posted,       \* the messages the panel posted to its webview, in order
    webview,      \* the script of the webview: what it received and shows
    handler,      \* the message handler under way, with its locals
    tasks,        \* concurrent calls of processFilesUsingEnigma, with their locals
    heap,         \* every Enigma object constructed, with the calls made on it
    running,      \* the call the event loop is executing, 0 between turns
    workspace     \* the content of each workspace file those calls see

vars == <<pairsStr, plugboard, config, enigma, pc, calls, last,
          text, obfuscate, idx, transformed, log,
          source, passes, codeAnalyzer, files, cursor, console,
          workspaceFolders, analysis, steps, script, state, visited,
          secrets, disk, posted, webview, handler,
          tasks, heap, running, workspace>>

\* the variables of the text passes and of the file batch
passVars == <<source, passes>>

batchVars == <<codeAnalyzer, files, cursor, console, workspaceFolders, analysis, steps>>

\* the variables of a program flattenControlFlow emitted
dispatchVars == <<script, state, visited>>

\* no emitted program is running
NoDispatch ==
    /\ script = [none |-> TRUE]
    /\ state = 0
    /\ visited = << >>

\* the variables of the panel and its webview
panelVars == <<secrets, disk, posted, webview, handler>>

\* the variables of concurrent calls
taskVars == <<tasks, heap, running, workspace>>

\* the panel has handled no message and no call runs beside another
NoPanel ==
    /\ secrets = [none |-> TRUE]
    /\ disk = [none |-> TRUE]
    /\ posted = << >>
    /\ webview = [none |-> TRUE]
    /\ handler = [none |-> TRUE]
    /\ tasks = << >>
    /\ heap = << >>
    /\ running = 0
    /\ workspace = << >>

\* no text pass and no batch is under way
NoPassNoBatch ==
    /\ source = << >>
    /\ passes = << >>
    /\ codeAnalyzer = [none |-> TRUE]
    /\ files = << >>
    /\ cursor = 0
    /\ console = << >>
    /\ workspaceFolders = FALSE
    /\ analysis = [none |-> TRUE]
    /\ steps = << >>

----------------------------------------------------------------------------
(* Characters and the string primitives of the runtime                     *)

ALPHABET ==
    <<"A", "B", "C", "D", "E", "F", "G", "H", "I", "J", "K", "L", "M",
      "N", "O", "P", "Q", "R", "S", "T", "U", "V", "W", "X", "Y", "Z">>

LOWERCASE ==
    <<"a", "b", "c", "d", "e", "f", "g", "h", "i", "j", "k", "l", "m",
      "n", "o", "p", "q", "r", "s", "t", "u", "v", "w", "x", "y", "z">>

Range(s) == {s[k] : k \in 1..Len(s)}

UpperLetters == Range(ALPHABET)

LowerLetters == Range(LOWERCASE)

\* Array.prototype.indexOf: 0-based index of the first element equal to x, -1 if none
indexOf(arr, x) ==
    IF \E k \in 1..Len(arr) : arr[k] = x
    THEN (CHOOSE k \in 1..Len(arr) : arr[k] = x /\ \A j \in 1..(k - 1) : arr[j] # x) - 1
    ELSE -1

\* String.prototype.indexOf for a one-character or empty needle ("" is found at 0)
strIndexOf(str, c) == IF c = "" THEN 0 ELSE indexOf(str, c)

\* String.prototype.charAt: "" outside the string
charAt(str, n) == IF n >= 0 /\ n < Len(str) THEN str[n + 1] ELSE ""

toUpperCase(c) == IF c \in LowerLetters THEN ALPHABET[indexOf(LOWERCASE, c) + 1] ELSE c

toLowerCase(c) == IF c \in UpperLetters THEN LOWERCASE[indexOf(ALPHABET, c) + 1] ELSE c

\* /[A-Za-z]/.test(char)
IsLetter(c) == c \in UpperLetters \/ c \in LowerLetters

\* the white space of String.prototype.trim and of \\s
WhiteSpace == {" ", "\t", "\n", "\r"}

IsSpace(c) == c \in WhiteSpace

RECURSIVE trimStart(_)
trimStart(s) == IF s # << >> /\ IsSpace(Head(s)) THEN trimStart(Tail(s)) ELSE s

RECURSIVE trimEnd(_)
trimEnd(s) ==
    IF s # << >> /\ IsSpace(s[Len(s)]) THEN trimEnd(SubSeq(s, 1, Len(s) - 1)) ELSE s

\* String.prototype.trim
trim(s) == trimEnd(trimStart(s))

\* the positions of s that hold sep, in order
separators(s, sep) == SelectSeq([k \in 1..Len(s) |-> k], LAMBDA k : s[k] = sep)

\* the pieces of s between the positions ps
pieces(s, ps) ==
    [j \in 1..(Len(ps) + 1) |->
        SubSeq(s, (IF j = 1 THEN 0 ELSE ps[j - 1]) + 1,
                  (IF j > Len(ps) THEN Len(s) + 1 ELSE ps[j]) - 1)] \o << >>

\* String.prototype.split(sep) for a one-character separator: the pieces
\* between the occurrences of sep, so "" gives [""]
split(s, sep) == pieces(s, separators(s, sep))

----------------------------------------------------------------------------
(* Keyboard                                                                *)

KeyboardForward(letter) == strIndexOf(ALPHABET, letter)

\* a backward that reads the alphabet one position too far
KeyboardBackwardOneBased(signal) == charAt(ALPHABET, signal + 1)

KeyboardBackward(signal) == charAt(ALPHABET, signal)

----------------------------------------------------------------------------
(* Plugboard                                                               *)

\* a swap that writes one side only: left[idxA] = left[idxB]
swapOverwrite(arr, idxA, idxB) == [arr EXCEPT ![idxA + 1] = arr[idxB + 1]]

\* [left[idxA], left[idxB]] = [left[idxB], left[idxA]]
swap(arr, idxA, idxB) ==
    [arr EXCEPT ![idxA + 1] = arr[idxB + 1], ![idxB + 1] = arr[idxA + 1]]

\* a loop body that looks the two characters up without toUpperCase
applyPairNoUpper(left, pair) ==
    IF Len(pair) >= 2
    THEN LET idxA == indexOf(left, pair[1])
             idxB == indexOf(left, pair[2])
         IN  IF idxA # -1 /\ idxB # -1 THEN swap(left, idxA, idxB) ELSE left
    ELSE left

\* body of the constructor's loop for one token of the pair string
applyPair(left, pair) ==
    IF Len(pair) >= 2
    THEN LET A == toUpperCase(pair[1])
             B == toUpperCase(pair[2])
             idxA == indexOf(left, A)
             idxB == indexOf(left, B)
         IN  IF idxA # -1 /\ idxB # -1 THEN swap(left, idxA, idxB) ELSE left
    ELSE left

RECURSIVE applyPairs(_, _)
applyPairs(left, pairs) ==
    IF pairs = << >> THEN left ELSE applyPairs(applyPair(left, Head(pairs)), Tail(pairs))

\* new Plugboard(pairsStr)
Plugboard(str) ==
    [left |-> applyPairs(ALPHABET, split(trim(str), " ")), right |-> ALPHABET]

\* forward and backward of Plugboard and of Rotor, reflect of Reflector
forward(t, signal) == indexOf(t.left, t.right[signal + 1])

\* a backward that repeats the forward lookup
backwardAsForward(t, signal) == indexOf(t.left, t.right[signal + 1])

backward(t, signal) == indexOf(t.right, t.left[signal + 1])

----------------------------------------------------------------------------
(* Rotor and Reflector                                                     *)

Rotor(wiring, notch) == [left |-> ALPHABET, right |-> wiring, notch |-> notch]

shiftLeft(arr) == Append(Tail(arr), Head(arr))

shiftRight(arr) == <<arr[Len(arr)]>> \o SubSeq(arr, 1, Len(arr) - 1)

RECURSIVE rotate(_, _, _)
rotate(r, n, fwd) ==
    IF n <= 0 THEN r
    ELSE rotate([r EXCEPT !.left = IF fwd THEN shiftLeft(@) ELSE shiftRight(@),
                          !.right = IF fwd THEN shiftLeft(@) ELSE shiftRight(@)],
                n - 1, fwd)

rotateToLetter(r, letter) == rotate(r, strIndexOf(ALPHABET, letter), TRUE)

\* a calibration that turns the rotor n positions instead of n - 1
setRingOffByOne(r, n) ==
    LET turned == rotate(r, n, FALSE)
        nNotch == strIndexOf(ALPHABET, r.notch)
    IN  [turned EXCEPT !.notch = charAt(ALPHABET, (nNotch - n + 1 + 26) % 26)]

setRing(r, n) ==
    LET turned == rotate(r, n - 1, FALSE)
        nNotch == strIndexOf(ALPHABET, r.notch)
    IN  [turned EXCEPT !.notch = charAt(ALPHABET, (nNotch - n + 1 + 26) % 26)]

Reflector(wiring) == [left |-> ALPHABET, right |-> wiring]

\* a reflector that sends the signal back as it came
reflectStraight(re, signal) == signal

reflect(re, signal) == forward(re, signal)

----------------------------------------------------------------------------
(* Enigma                                                                  *)

Enigma(reflector, r1, r2, r3, pb) ==
    [re |-> reflector, r1 |-> r1, r2 |-> r2, r3 |-> r3, pb |-> pb]

\* rings[k] of a number array that may be shorter than three: setRing(undefined)
\* runs no rotation (i < NaN is false) and charAt(NaN) is charAt(0)
setRingAt(r, rings, k) ==
    IF k <= Len(rings) THEN setRing(r, rings[k]) ELSE [r EXCEPT !.notch = charAt(ALPHABET, 0)]

setRings(e, rings) ==
    [e EXCEPT !.r1 = setRingAt(@, rings, 1),
              !.r2 = setRingAt(@, rings, 2),
              !.r3 = setRingAt(@, rings, 3)]

setKey(e, key) ==
    [e EXCEPT !.r1 = rotateToLetter(@, toUpperCase(charAt(key, 0))),
              !.r2 = rotateToLetter(@, toUpperCase(charAt(key, 1))),
              !.r3 = rotateToLetter(@, toUpperCase(charAt(key, 2)))]

\* the ten lookups of encipher after the keyboard, on an engine that is not stepped
thread(e, s0) ==
    LET s1 == forward(e.pb, s0)
        s2 == forward(e.r3, s1)
        s3 == forward(e.r2, s2)
        s4 == forward(e.r1, s3)
        s5 == reflect(e.re, s4)
        s6 == backward(e.r1, s5)
        s7 == backward(e.r2, s6)
        s8 == backward(e.r3, s7)
        s9 == backward(e.pb, s8)
    IN  <<s0, s1, s2, s3, s4, s5, s6, s7, s8, s9>>

\* an encipher that threads the signal first and steps the right rotor afterwards
encipherThreadFirst(e, letter) ==
    LET path == thread(e, KeyboardForward(letter))
    IN  [enigma |-> [e EXCEPT !.r3 = rotate(@, 1, TRUE)], path |-> path,
         letter |-> KeyboardBackward(path[10])]

\* an encipher with the historical carry: the middle rotor steps when the right
\* rotor shows its notch letter
encipherWithCarry(e, letter) ==
    LET carried == IF e.r3.left[1] = e.r3.notch
                   THEN [e EXCEPT !.r2 = rotate(@, 1, TRUE)] ELSE e
        stepped == [carried EXCEPT !.r3 = rotate(@, 1, TRUE)]
        path == thread(stepped, KeyboardForward(letter))
    IN  [enigma |-> stepped, path |-> path, letter |-> KeyboardBackward(path[10])]

\* Enigma.encipher: the engine after the call and the value returned
encipher(e, letter) ==
    LET stepped == [e EXCEPT !.r3 = rotate(@, 1, TRUE)]
        path == thread(stepped, KeyboardForward(letter))
    IN  [enigma |-> stepped, path |-> path, letter |-> KeyboardBackward(path[10])]

----------------------------------------------------------------------------
(* enigmaObfuscate: wiring tables and engine set-up                        *)

rotorWirings ==
    <<"I">> :>
        <<"E", "K", "M", "F", "L", "G", "D", "Q", "V", "Z", "N", "T", "O",
          "W", "Y", "H", "X", "U", "S", "P", "A", "I", "B", "R", "C", "J">>
    @@ <<"I", "I">> :>
        <<"A", "J", "D", "K", "S", "I", "R", "U", "X", "B", "L", "H", "W",
          "T", "M", "C", "Q", "G", "Z", "N", "P", "Y", "F", "V", "O", "E">>
    @@ <<"I", "I", "I">> :>
        <<"B", "D", "F", "H", "J", "L", "C", "P", "R", "T", "X", "V", "Z",
          "N", "Y", "E", "I", "W", "G", "A", "K", "M", "U", "S", "Q", "O">>
    @@ <<"I", "V">> :>
        <<"E", "S", "O", "V", "P", "Z", "J", "A", "Y", "Q", "U", "I", "R",
          "H", "X", "L", "N", "F", "T", "G", "K", "D", "C", "M", "W", "B">>
    @@ <<"V">> :>
        <<"V", "Z", "B", "R", "G", "I", "T", "Y", "U", "P", "S", "D", "N",
          "H", "L", "X", "A", "W", "M", "J", "Q", "O", "F", "E", "C", "K">>

reflectorWirings ==
    <<"A">> :>
        <<"E", "J", "M", "Z", "A", "L", "Y", "X", "V", "B", "W", "F", "C",
          "R", "Q", "U", "O", "N", "T", "S", "P", "I", "K", "H", "G", "D">>
    @@ <<"B">> :>
        <<"Y", "R", "U", "H", "Q", "S", "L", "D", "P", "X", "N", "G", "O",
          "K", "M", "I", "E", "B", "F", "Z", "C", "W", "V", "J", "A", "T">>
    @@ <<"C">> :>
        <<"F", "V", "P", "J", "I", "A", "O", "Y", "E", "D", "R", "Z", "X",
          "W", "G", "C", "T", "K", "U", "Q", "S", "B", "N", "M", "H", "L">>

rotorNames(cfg) == split(cfg.rotors, "-")

\* rotorWirings[rotorNames[k]] and reflectorWirings[config.reflector] are defined
RotorResolves(cfg, k) ==
    k <= Len(rotorNames(cfg)) /\ rotorNames(cfg)[k] \in DOMAIN rotorWirings

ReflectorResolves(cfg) == cfg.reflector \in DOMAIN reflectorWirings

WiringsResolve(cfg) ==
    /\ \A k \in 1..3 : RotorResolves(cfg, k)
    /\ ReflectorResolves(cfg)

\* config.rings.split('').map(c => ALPHABET.indexOf(c) + 1)
ringNumbers(cfg) == [k \in 1..Len(cfg.rings) |-> strIndexOf(ALPHABET, cfg.rings[k]) + 1]

\* an engine whose rotors are mounted in the reverse order
newEnigmaReversed(cfg) ==
    Enigma(Reflector(reflectorWirings[cfg.reflector]),
           Rotor(rotorWirings[rotorNames(cfg)[3]], "Q"),
           Rotor(rotorWirings[rotorNames(cfg)[2]], "E"),
           Rotor(rotorWirings[rotorNames(cfg)[1]], "V"),
           Plugboard(cfg.plugboard))

newEnigma(cfg) ==
    Enigma(Reflector(reflectorWirings[cfg.reflector]),
           Rotor(rotorWirings[rotorNames(cfg)[1]], "Q"),
           Rotor(rotorWirings[rotorNames(cfg)[2]], "E"),
           Rotor(rotorWirings[rotorNames(cfg)[3]], "V"),
           Plugboard(cfg.plugboard))

\* the engine as the character loop of enigmaObfuscate first sees it
configured(cfg) == setKey(setRings(newEnigma(cfg), ringNumbers(cfg)), cfg.rotorStart)

----------------------------------------------------------------------------
(* Inputs                                                                  *)

\* longest text handed to enigmaObfuscate
MaxLen == 3

\* longest pair string handed to the Plugboard constructor on its own
MaxPlugLen == 5

\* most encipher calls a caller makes on one engine
MaxCalls == 27

Chars == {"A", "e", "7"}

Texts == UNION {[1..n -> Chars] : n \in 0..MaxLen}

PlugChars == {"A", "B", "C", "d", "1", " "}

PairStrings == UNION {[1..n -> PlugChars] : n \in 0..MaxPlugLen}

MachineLetters == {"A", "Q", "Z"}

NoEnigma == [none |-> TRUE]

NoResult == [none |-> TRUE]

Config(rotors, rotorStart, rings, pb, reflector) ==
    [rotors |-> rotors, rotorStart |-> rotorStart, rings |-> rings,
     plugboard |-> pb, reflector |-> reflector]

\* a configuration naming a rotor that has no wiring table
UnknownRotorConfig ==
    Config(<<"I", "-", "I", "I", "-", "V", "I">>, <<"A", "A", "A">>, <<"A", "A", "A">>, << >>, <<"B">>)

Reflectors == {<<"A">>, <<"B">>, <<"C">>}

CodecConfigs ==
    { Config(ro, st, ri, pb, re) :
        ro \in { <<"I", "-", "I", "I", "-", "I", "I", "I">>,
                <<"V", "-", "I", "V", "-", "I", "I">> },
        st \in {<<"A", "A", "A">>, <<"Q", "E", "V">>},
        ri \in {<<"A", "A", "A">>, <<"B", "C", "Z">>},
        pb \in {<<>>, <<"A", "Q", " ", "E", "Z">>},
        re \in Reflectors }
    \cup {UnknownRotorConfig}

MachineConfigs ==
    { Config(ro, st, ri, pb, re) :
        ro \in { <<"I", "-", "I", "I", "-", "I", "I", "I">>,
                <<"I", "I", "I", "-", "I", "-", "V">>,
                <<"I", "V", "-", "V", "-", "I", "I">> },
        st \in {<<"A", "A", "A">>, <<"Q", "E", "V">>, <<"Z", "d", "U">>},
        ri \in {<<"A", "A", "A">>, <<"B", "C", "Z">>},
        pb \in { <<>>,
                <<"A", "Q", " ", "E", "Z">>,
                <<"A", "B", " ", "B", "C">>,
                <<"A", "A", " ", "q", "z", " ", "Z", "A">>,
                <<" ", "A", "B", " ", " ", "C", "D">> },
        re \in Reflectors }
    \cup {UnknownRotorConfig}

----------------------------------------------------------------------------
(* A Plugboard constructed on its own from a pair string                   *)

PlugboardInit ==
    /\ pairsStr \in PairStrings
    /\ plugboard = NoResult
    /\ pc = "plug-new"
    /\ config = UnknownRotorConfig
    /\ enigma = NoEnigma
    /\ calls = 0
    /\ last = NoResult
    /\ text = << >>
    /\ obfuscate = FALSE
    /\ idx = 0
    /\ transformed = << >>
    /\ log = << >>
    /\ NoPassNoBatch
    /\ NoDispatch
    /\ NoPanel

NewPlugboard ==
    /\ pc = "plug-new"
    /\ plugboard' = Plugboard(pairsStr)
    /\ pc' = "plug-built"
    /\ UNCHANGED <<passVars, batchVars, dispatchVars, panelVars, taskVars>>
    /\ UNCHANGED <<pairsStr, config, enigma, calls, last, text, obfuscate, idx,
                   transformed, log>>

----------------------------------------------------------------------------
(* Engine set-up of enigmaObfuscate, shared by the caller of encipher and  *)
(* by the text codec                                                       *)

\* a set-up that keeps the engine an earlier invocation left behind
NewEnigmaReused ==
    /\ pc = "new"
    /\ WiringsResolve(config)
    /\ enigma' = IF Len(log) > 0 THEN enigma ELSE newEnigma(config)
    /\ pc' = "constructed"
    /\ UNCHANGED <<passVars, batchVars, dispatchVars, panelVars, taskVars>>
    /\ UNCHANGED <<pairsStr, plugboard, config, calls, last, text, obfuscate, idx,
                   transformed, log>>

\* lines 352-359: the five components and the engine are constructed
NewEnigma ==
    /\ pc = "new"
    /\ WiringsResolve(config)
    /\ enigma' = newEnigma(config)
    /\ pc' = "constructed"
    /\ UNCHANGED <<passVars, batchVars, dispatchVars, panelVars, taskVars>>
    /\ UNCHANGED <<pairsStr, plugboard, config, calls, last, text, obfuscate, idx,
                   transformed, log>>

\* a set-up that replaces an unknown rotor or reflector name by the README's
\* basic configuration names and carries on
NewEnigmaFallsBack ==
    /\ pc = "new"
    /\ ~WiringsResolve(config)
    /\ enigma' = newEnigma([config EXCEPT !.rotors = <<"I", "-", "I", "I", "-", "I", "I", "I">>,
                                          !.reflector = <<"B">>])
    /\ pc' = "constructed"
    /\ UNCHANGED <<passVars, batchVars, dispatchVars, panelVars, taskVars>>
    /\ UNCHANGED <<pairsStr, plugboard, config, calls, last, text, obfuscate, idx,
                   transformed, log>>

\* new Rotor / new Reflector on an undefined wiring: wiring.split throws
NewEnigmaThrows ==
    /\ pc = "new"
    /\ ~WiringsResolve(config)
    /\ pc' = "threw"
    /\ UNCHANGED <<passVars, batchVars, dispatchVars, panelVars, taskVars>>
    /\ UNCHANGED <<pairsStr, plugboard, config, enigma, calls, last, text, obfuscate,
                   idx, transformed, log>>

\* line 361
SetRings ==
    /\ pc = "constructed"
    /\ enigma' = setRings(enigma, ringNumbers(config))
    /\ pc' = "ringed"
    /\ UNCHANGED <<passVars, batchVars, dispatchVars, panelVars, taskVars>>
    /\ UNCHANGED <<pairsStr, plugboard, config, calls, last, text, obfuscate, idx,
                   transformed, log>>

\* line 362
SetKey ==
    /\ pc = "ringed"
    /\ enigma' = setKey(enigma, config.rotorStart)
    /\ pc' = "ready"
    /\ UNCHANGED <<passVars, batchVars, dispatchVars, panelVars, taskVars>>
    /\ UNCHANGED <<pairsStr, plugboard, config, calls, last, text, obfuscate, idx,
                   transformed, log>>

----------------------------------------------------------------------------
(* The components in use: a plugboard built from a pair string, and a      *)
(* caller that owns one engine and enciphers letter after letter           *)

EngineInit ==
    /\ config \in MachineConfigs
    /\ pc = "new"
    /\ enigma = NoEnigma
    /\ calls = 0
    /\ last = NoResult
    /\ pairsStr = << >>
    /\ plugboard = NoResult
    /\ text = << >>
    /\ obfuscate = FALSE
    /\ idx = 0
    /\ transformed = << >>
    /\ log = << >>
    /\ NoPassNoBatch
    /\ NoDispatch
    /\ NoPanel

EncipherCall(letter) ==
    /\ pc = "ready"
    /\ calls < MaxCalls
    /\ LET result == encipher(enigma, letter)
       IN  /\ enigma' = result.enigma
           /\ last' = [in |-> letter, path |-> result.path, letter |-> result.letter]
    /\ calls' = calls + 1
    /\ UNCHANGED <<passVars, batchVars, dispatchVars, panelVars, taskVars>>
    /\ UNCHANGED <<pairsStr, plugboard, config, pc, text, obfuscate, idx, transformed, log>>

\* either a plugboard or a whole engine is about to be built
MachineInit == PlugboardInit \/ EngineInit

MachineNext ==
    \/ NewPlugboard
    \/ NewEnigma
    \/ NewEnigmaThrows
    \/ SetRings
    \/ SetKey
    \/ \E letter \in MachineLetters : EncipherCall(letter)

SpecMachine == MachineInit /\ [][MachineNext]_vars

----------------------------------------------------------------------------
(* The text codec enigmaObfuscate(text, config, obfuscate)                 *)

CodecInit ==
    /\ config \in CodecConfigs
    /\ pc = "idle"
    /\ enigma = NoEnigma
    /\ calls = 0
    /\ last = NoResult
    /\ pairsStr = << >>
    /\ plugboard = NoResult
    /\ text = << >>
    /\ obfuscate = FALSE
    /\ idx = 0
    /\ transformed = << >>
    /\ log = << >>
    /\ NoPassNoBatch
    /\ NoDispatch
    /\ NoPanel

\* String.prototype.toLowerCase and toUpperCase on a whole text
textToLowerCase(s) == [k \in 1..Len(s) |-> toLowerCase(s[k])]

textToUpperCase(s) == [k \in 1..Len(s) |-> toUpperCase(s[k])]

lettersOf(s) == SelectSeq(s, IsLetter)

\* the calls made after a first one: its output, its text under the other flag,
\* its text in lowercase, its text without the non-letters
FollowUps(first) ==
    { <<first.out, FALSE>>,
      <<first.text, FALSE>>,
      <<textToLowerCase(first.text), TRUE>>,
      <<lettersOf(first.text), TRUE>> }

\* a codec that returns the engine's upper-case letter as it is
restoreCaseNever(char, letter) == letter

\* lines 368-371: the result letter takes the case of the input character
restoreCase(char, letter) == IF char = toLowerCase(char) THEN toLowerCase(letter) ELSE letter

\* enigmaObfuscate is entered with its arguments
Enter(t, flag) ==
    /\ pc = "idle"
    /\ text' = t
    /\ obfuscate' = flag
    /\ idx' = 0
    /\ transformed' = << >>
    /\ calls' = 0
    /\ last' = NoResult
    /\ pc' = "new"
    /\ UNCHANGED <<passVars, batchVars, dispatchVars, panelVars, taskVars>>
    /\ UNCHANGED <<pairsStr, plugboard, config, enigma, log>>

FirstCall == log = << >> /\ \E t \in Texts : Enter(t, TRUE)

NextCall == Len(log) = 1 /\ \E c \in FollowUps(log[1]) : Enter(c[1], c[2])

\* lines 366-372: an alphabetic character goes through the engine and gets its case back
LoopLetter ==
    /\ pc = "ready"
    /\ idx < Len(text)
    /\ LET char == text[idx + 1]
           result == encipher(enigma, toUpperCase(char))
           newChar == restoreCase(char, result.letter)
       IN  /\ IsLetter(char)
           /\ enigma' = result.enigma
           /\ last' = [in |-> toUpperCase(char), path |-> result.path,
                       letter |-> result.letter]
           /\ transformed' = Append(transformed, newChar)
    /\ calls' = calls + 1
    /\ idx' = idx + 1
    /\ UNCHANGED <<passVars, batchVars, dispatchVars, panelVars, taskVars>>
    /\ UNCHANGED <<pairsStr, plugboard, config, pc, text, obfuscate, log>>

\* a loop that steps the right rotor on every character, letter or not
LoopOtherSteps ==
    /\ pc = "ready"
    /\ idx < Len(text)
    /\ ~IsLetter(text[idx + 1])
    /\ transformed' = Append(transformed, text[idx + 1])
    /\ enigma' = [enigma EXCEPT !.r3 = rotate(@, 1, TRUE)]
    /\ idx' = idx + 1
    /\ UNCHANGED <<passVars, batchVars, dispatchVars, panelVars, taskVars>>
    /\ UNCHANGED <<pairsStr, plugboard, config, pc, calls, last, text, obfuscate, log>>

\* lines 373-375: any other character is copied
LoopOther ==
    /\ pc = "ready"
    /\ idx < Len(text)
    /\ ~IsLetter(text[idx + 1])
    /\ transformed' = Append(transformed, text[idx + 1])
    /\ idx' = idx + 1
    /\ UNCHANGED <<passVars, batchVars, dispatchVars, panelVars, taskVars>>
    /\ UNCHANGED <<pairsStr, plugboard, config, enigma, pc, calls, last, text,
                   obfuscate, log>>

\* line 377
Return ==
    /\ pc = "ready"
    /\ idx = Len(text)
    /\ log' = Append(log, [text |-> text, obfuscate |-> obfuscate, out |-> transformed])
    /\ pc' = "idle"
    /\ UNCHANGED <<passVars, batchVars, dispatchVars, panelVars, taskVars>>
    /\ UNCHANGED <<pairsStr, plugboard, config, enigma, calls, last, text, obfuscate,
                   idx, transformed>>

CodecNext ==
    \/ FirstCall
    \/ NextCall
    \/ NewEnigma
    \/ NewEnigmaThrows
    \/ SetRings
    \/ SetKey
    \/ LoopLetter
    \/ LoopOther
    \/ Return

SpecCodec == CodecInit /\ [][CodecNext]_vars

----------------------------------------------------------------------------
(* Vocabulary of the properties                                            *)

\* both sides of a table hold each of the 26 letters exactly once
IsPermutation(arr) ==
    /\ Len(arr) = 26
    /\ \A c \in UpperLetters : Cardinality({k \in 1..Len(arr) : arr[k] = c}) = 1

IsBijection(t) == IsPermutation(t.left) /\ IsPermutation(t.right)

\* the tokens of a pair string, as the constructor reads them
tokens(str) == split(trim(str), " ")

\* the letters of the two-letter tokens, in order, in upper case
pairLetters(str) ==
    LET RECURSIVE flat(_)
        flat(ts) == IF ts = << >> THEN << >>
                    ELSE textToUpperCase(Head(ts)) \o flat(Tail(ts))
    IN  flat(tokens(str))

\* disjoint two-letter tokens: every token is empty (a doubled space) or two
\* letters, and no letter occurs twice in the whole string
ValidPairString(str) ==
    /\ \A k \in 1..Len(tokens(str)) :
          LET tk == tokens(str)[k]
          IN  tk = << >> \/ (Len(tk) = 2 /\ IsLetter(tk[1]) /\ IsLetter(tk[2]))
    /\ \A j, k \in 1..Len(pairLetters(str)) :
          pairLetters(str)[j] = pairLetters(str)[k] => j = k

\* known rotor and reflector names, three ring and three start letters in A..Z,
\* a plugboard string of disjoint letter pairs
ValidConfig(cfg) ==
    /\ Len(rotorNames(cfg)) = 3
    /\ WiringsResolve(cfg)
    /\ Len(cfg.rings) = 3 /\ Range(cfg.rings) \subseteq UpperLetters
    /\ Len(cfg.rotorStart) = 3 /\ Range(cfg.rotorStart) \subseteq UpperLetters
    /\ ValidPairString(cfg.plugboard)

Entries == {log[k] : k \in 1..Len(log)}

HasUpper(s) == \E k \in 1..Len(s) : s[k] \in UpperLetters

HasLower(s) == \E k \in 1..Len(s) : s[k] \in LowerLetters

HasOther(s) == \E k \in 1..Len(s) : ~IsLetter(s[k])

----------------------------------------------------------------------------
(* C1. For every valid configuration and every text S, enciphering S with  *)
(* obfuscate = true and enciphering the result with obfuscate = false      *)
(* under the same configuration gives S back exactly: same letters, same   *)
(* case, same non-letters.                                                 *)

C1_RoundTrip ==
    (/\ Len(log) = 2
     /\ log[1].obfuscate /\ ~log[2].obfuscate
     /\ log[2].text = log[1].out
     /\ ValidConfig(config))
    => log[2].out = log[1].text

\* a text with an upper-case letter, a lower-case letter and a non-letter was
\* encoded to something else and decoded, with a plugboard and non-trivial rings
C1_Witness ==
    /\ Len(log) = 2 /\ log[1].obfuscate /\ ~log[2].obfuscate
    /\ ValidConfig(config) /\ config.plugboard # << >> /\ config.rings # <<"A", "A", "A">>
    /\ log[2].text = log[1].out
    /\ log[1].out # log[1].text
    /\ HasUpper(log[1].text) /\ HasLower(log[1].text) /\ HasOther(log[1].text)

----------------------------------------------------------------------------
(* C2. Two engines built from the same configuration and fed the same      *)
(* letters return the same letter at every call, and the output of         *)
(* enigmaObfuscate depends only on the text and the configuration: not on  *)
(* the obfuscate flag, not on an invocation made before.                   *)

C2_Deterministic ==
    /\ \A a, b \in Entries : a.text = b.text => a.out = b.out
    /\ (Len(log) = 1 /\ pc = "ready" /\ text = log[1].text)
          => transformed = SubSeq(log[1].out, 1, idx)

\* the same text with two letters or more went through twice, once under each flag
C2_Witness ==
    /\ Len(log) = 2
    /\ log[1].text = log[2].text
    /\ log[1].obfuscate # log[2].obfuscate
    /\ Len(lettersOf(log[1].text)) >= 2
    /\ log[1].out # log[1].text

----------------------------------------------------------------------------
(* C3. For every text and valid configuration the output has the length of *)
(* the text, holds the same character wherever the text holds a non-letter *)
(* and holds a letter wherever the text holds a letter.                    *)

C3_Shape ==
    (log # << >> /\ ValidConfig(config)) =>
        \A e \in Entries :
            /\ Len(e.out) = Len(e.text)
            /\ \A k \in 1..Len(e.text) :
                  IF IsLetter(e.text[k]) THEN IsLetter(e.out[k]) ELSE e.out[k] = e.text[k]

\* a text mixing letters and a non-letter was transformed into another text
C3_Witness ==
    \E e \in Entries :
        /\ HasUpper(e.text) /\ HasLower(e.text) /\ HasOther(e.text)
        /\ e.out # e.text
        /\ ValidConfig(config)

----------------------------------------------------------------------------
(* C4. A non-alphabetic character leaves the engine as it is, so the       *)
(* letter produced for the k-th letter of a text depends on that letter    *)
(* and on k only: the letters of the output are the output of the letters. *)

C4_NonLettersDoNotStep ==
    /\ [][(pc = "ready" /\ idx < Len(text) /\ idx' = idx + 1 /\ ~IsLetter(text[idx + 1]))
            => enigma' = enigma]_vars
    /\ [](Len(log) = 2 /\ log[2].text = lettersOf(log[1].text)
            => log[2].out = lettersOf(log[1].out))

\* a text with a non-letter between two letters, and then its letters alone
C4_Witness ==
    /\ Len(log) = 2
    /\ Len(log[1].text) = 3
    /\ IsLetter(log[1].text[1]) /\ ~IsLetter(log[1].text[2]) /\ IsLetter(log[1].text[3])
    /\ log[2].text = lettersOf(log[1].text)

----------------------------------------------------------------------------
(* C5. The codec preserves case: an output letter is lower case exactly    *)
(* when the input letter is, and the encoding of the lower-case form of a  *)
(* text is the lower-case form of the encoding of the text.                *)

C5_CasePreserved ==
    /\ \A e \in Entries : \A k \in 1..Len(e.text) :
          IsLetter(e.text[k]) => (e.out[k] \in LowerLetters <=> e.text[k] \in LowerLetters)
    /\ \A a, b \in Entries :
          b.text = textToLowerCase(a.text) => b.out = textToLowerCase(a.out)

\* an upper-case text and its lower-case form were both encoded
C5_Witness ==
    /\ Len(log) = 2
    /\ HasUpper(log[1].text) /\ ~HasLower(log[1].text)
    /\ log[2].text = textToLowerCase(log[1].text)
    /\ log[1].out # log[1].text

----------------------------------------------------------------------------
(* C6. Every encipher call advances the right rotor r3 by one position,    *)
(* before the signal is threaded: after k calls r3 is the ring-calibrated  *)
(* rotor turned forward (start + k) mod 26 positions, the path returned is *)
(* the path through the engine as stepped, and after 26 calls the engine   *)
(* is the engine the configuration produced.                               *)

startOffset(cfg) == strIndexOf(ALPHABET, toUpperCase(charAt(cfg.rotorStart, 2)))

C6_RightRotorSteps ==
    pc = "ready" =>
        /\ enigma.r3 = rotate(setRings(newEnigma(config), ringNumbers(config)).r3,
                              (startOffset(config) + calls) % 26, TRUE)
        /\ calls > 0 =>
              /\ last.path = thread(enigma, KeyboardForward(last.in))
              /\ last.letter = KeyboardBackward(last.path[10])
        /\ calls = 26 => enigma = configured(config)

\* 26 calls were made on an engine with ring letters and start letters other than A
C6_Witness ==
    /\ pc = "ready"
    /\ calls = 26
    /\ config.rings = <<"B", "C", "Z">>
    /\ config.rotorStart = <<"Q", "E", "V">>

----------------------------------------------------------------------------
(* C7. Across any sequence of encipher calls the middle and left rotors,   *)
(* the plugboard, the reflector and every notch letter stay what the       *)
(* configuration made them: no carry ever happens.                         *)

C7_NoCarry ==
    pc = "ready" =>
        /\ enigma.r1 = configured(config).r1
        /\ enigma.r2 = configured(config).r2
        /\ enigma.pb = configured(config).pb
        /\ enigma.re = configured(config).re
        /\ enigma.r3.notch = configured(config).r3.notch

\* after a call the right rotor shows its notch letter and the middle rotor its own
C7_Witness ==
    /\ pc = "ready"
    /\ calls > 0
    /\ enigma.r3.left[1] = enigma.r3.notch
    /\ enigma.r2.left[1] = enigma.r2.notch

----------------------------------------------------------------------------
(* C8. In every reachable state, after plugboard construction from any     *)
(* pair string and after any setRing, rotateToLetter, rotate and encipher, *)
(* both sides of every rotor, plugboard and reflector table hold each of   *)
(* the 26 letters exactly once.                                            *)

C8_TablesAreBijections ==
    /\ pc = "plug-built" => IsBijection(plugboard)
    /\ pc \in {"constructed", "ringed", "ready"} =>
          /\ IsBijection(enigma.re)
          /\ IsBijection(enigma.r1)
          /\ IsBijection(enigma.r2)
          /\ IsBijection(enigma.r3)
          /\ IsBijection(enigma.pb)

\* an engine whose plugboard string reuses a letter, ring-set, keyed and stepped
C8_Witness ==
    /\ pc = "ready"
    /\ calls > 0
    /\ config.plugboard = <<"A", "B", " ", "B", "C">>
    /\ config.rings = <<"B", "C", "Z">>

----------------------------------------------------------------------------
(* C9. For a plugboard built from a valid pair string and every position   *)
(* p, backward(forward(p)) = p; forward swaps the two letters of each pair *)
(* and fixes every unpaired letter, so forward(forward(p)) = p.            *)

\* what the pair string says position p is plugged to
partner(str, p) ==
    LET k == indexOf(pairLetters(str), ALPHABET[p + 1])
    IN  IF k = -1 THEN p
        ELSE IF k % 2 = 0 THEN indexOf(ALPHABET, pairLetters(str)[k + 2])
        ELSE indexOf(ALPHABET, pairLetters(str)[k])

C9_PlugboardInvolution ==
    (pc = "plug-built" /\ ValidPairString(pairsStr)) =>
        \A p \in 0..25 :
            /\ backward(plugboard, forward(plugboard, p)) = p
            /\ forward(plugboard, p) = partner(pairsStr, p)
            /\ forward(plugboard, forward(plugboard, p)) = p

\* a plugboard built from two disjoint pairs, one of them written in mixed case
C9_Witness ==
    /\ pc = "plug-built"
    /\ pairsStr = <<"A", "B", " ", "C", "d">>

----------------------------------------------------------------------------
(* C10. When a letter appears in more than one pair, the first pair        *)
(* applied wins and every later pair reusing a paired letter is skipped:   *)
(* the plugboard equals the one built from the non-conflicting pairs.      *)

\* a token the constructor acts on: two characters or more, the first two letters
IsPair(tk) == Len(tk) >= 2 /\ IsLetter(tk[1]) /\ IsLetter(tk[2])

\* the pairs left when every pair that reuses a letter of an earlier kept pair is dropped
RECURSIVE firstWins(_, _)
firstWins(ts, used) ==
    IF ts = << >> THEN << >>
    ELSE LET tk == Head(ts)
             ab == IF IsPair(tk) THEN {toUpperCase(tk[1]), toUpperCase(tk[2])} ELSE {}
         IN  IF ~IsPair(tk) \/ ab \cap used # {}
             THEN firstWins(Tail(ts), used)
             ELSE <<tk>> \o firstWins(Tail(ts), IF Cardinality(ab) = 2 THEN used \cup ab ELSE used)

C10_FirstPairWins ==
    pc = "plug-built" =>
        plugboard.left = applyPairs(ALPHABET, firstWins(tokens(pairsStr), {}))

----------------------------------------------------------------------------
(* enigmaObfuscate handed a configuration with a field that is wrong       *)

BasicConfig ==
    Config(<<"I", "-", "I", "I", "-", "I", "I", "I">>, <<"A", "A", "A">>, <<"A", "A", "A">>, << >>, <<"B">>)

\* rotor fields of which one name, or the third name, has no wiring table
UnknownRotorFields ==
    { <<"V", "I", "-", "I", "I", "-", "I", "I", "I">>,
      <<"I", "-", "I", "I", "X", "-", "I", "I", "I">>,
      <<"I", "-", "I", "I", "-", "V", "I">>,
      <<"i", "-", "i", "i", "-", "i", "i", "i">>,
      <<"I", "-", "I", "I">>,
      <<"I", "I", "I">>,
      << >> }

UnknownReflectorFields == { <<"D">>, <<"b">>, << >> }

\* ring fields with a lower-case letter, a digit, fewer or more than three letters
MalformedRingFields ==
    { <<"A", "a", "A">>, <<"B", "7", "C">>, <<"B", "C">>, << >>, <<"B", "C", "D", "E">> }

\* start fields with a non-letter or fewer than three letters
MalformedStartFields == { <<"Q", "7", "V">>, <<"Q", "E">>, << >> }

\* plugboard fields with a token holding a non-letter, one letter, or three
MalformedPlugboardFields ==
    { <<"A", "1">>, <<"A", "Q", " ", "?", "Z">>, <<"A">>, <<"A", "Q", "Z">> }

FaultyConfigs ==
    {[BasicConfig EXCEPT !.rotors = f] : f \in UnknownRotorFields}
    \cup {[BasicConfig EXCEPT !.reflector = f] : f \in UnknownReflectorFields}
    \cup {[BasicConfig EXCEPT !.rings = f] : f \in MalformedRingFields}
    \cup {[BasicConfig EXCEPT !.rotorStart = f] : f \in MalformedStartFields}
    \cup {[BasicConfig EXCEPT !.plugboard = f] : f \in MalformedPlugboardFields}
    \cup {BasicConfig}

FaultyInit ==
    /\ config \in FaultyConfigs
    /\ pc = "idle"
    /\ enigma = NoEnigma
    /\ calls = 0
    /\ last = NoResult
    /\ pairsStr = << >>
    /\ plugboard = NoResult
    /\ text = << >>
    /\ obfuscate = FALSE
    /\ idx = 0
    /\ transformed = << >>
    /\ log = << >>
    /\ NoPassNoBatch
    /\ NoDispatch
    /\ NoPanel

SpecFaulty == FaultyInit /\ [][CodecNext]_vars

----------------------------------------------------------------------------
(* C11. When one of the three rotor names or the reflector name of the     *)
(* configuration has no wiring table, or fewer than three rotor names are  *)
(* given, enigmaObfuscate throws before it enciphers any character: no     *)
(* engine exists, no character is transformed and nothing is returned.     *)

C11_UnknownNameThrows ==
    \/ pc = "idle" /\ log = << >>
    \/ WiringsResolve(config)
    \/ /\ pc \in {"new", "threw"}
       /\ enigma = NoEnigma
       /\ calls = 0
       /\ transformed = << >>
       /\ log = << >>

\* the call with two rotor names and a text that holds a letter has thrown
C11_Witness ==
    /\ pc = "threw"
    /\ Len(rotorNames(config)) = 2
    /\ ReflectorResolves(config)
    /\ HasUpper(text)

----------------------------------------------------------------------------
(* C12. A malformed ring, rotor-start or plugboard field (a character      *)
(* outside A..Z such as a lower-case ring letter, fewer than three ring or *)
(* start letters, a plugboard token holding a non-letter) is a fatal       *)
(* configuration error: no engine is constructed and no text transformed.  *)

\* a ring field that is not three letters of A..Z, a start field that is not
\* three letters, or a plugboard token that holds a non-letter
MalformedField(cfg) ==
    \/ Len(cfg.rings) < 3
    \/ \E k \in 1..Len(cfg.rings) : cfg.rings[k] \notin UpperLetters
    \/ Len(cfg.rotorStart) < 3
    \/ \E k \in 1..Len(cfg.rotorStart) : ~IsLetter(cfg.rotorStart[k])
    \/ \E k \in 1..Len(tokens(cfg.plugboard)) : HasOther(tokens(cfg.plugboard)[k])

C12_MalformedFieldIsFatal ==
    MalformedField(config) =>
        /\ pc \notin {"constructed", "ringed", "ready"}
        /\ enigma = NoEnigma
        /\ log = << >>

----------------------------------------------------------------------------
(* enigmaObfuscate under the README's basic configuration, on whole words  *)

HELLO == <<"H", "E", "L", "L", "O">>

ILBDA == <<"I", "L", "B", "D", "A">>

GoldenTexts ==
    { HELLO,
      <<"W", "O", "R", "L", "D">>,
      <<"h", "e", "l", "l", "o">>,
      <<"H", "e", ",", " ", "l", "-", "l", "o", "!">>,
      <<"A", "A", "A", "A", "A", "A">> }

GoldenInit ==
    /\ config = BasicConfig
    /\ pc = "idle"
    /\ enigma = NoEnigma
    /\ calls = 0
    /\ last = NoResult
    /\ pairsStr = << >>
    /\ plugboard = NoResult
    /\ text = << >>
    /\ obfuscate = FALSE
    /\ idx = 0
    /\ transformed = << >>
    /\ log = << >>
    /\ NoPassNoBatch
    /\ NoDispatch
    /\ NoPanel

GoldenCall == log = << >> /\ \E t \in GoldenTexts : Enter(t, TRUE)

\* a run with a fresh engine on what the first run returned, or on its text again
GoldenNextCall == Len(log) \in 1..2 /\ \E c \in FollowUps(log[1]) : Enter(c[1], c[2])

GoldenNext ==
    \/ GoldenCall
    \/ GoldenNextCall
    \/ NewEnigma
    \/ SetRings
    \/ SetKey
    \/ LoopLetter
    \/ LoopOther
    \/ Return

SpecGolden == GoldenInit /\ [][GoldenNext]_vars

----------------------------------------------------------------------------
(* C13. Under {rotors I-II-III, rotorStart AAA, rings AAA, plugboard "",   *)
(* reflector B} every run that encodes HELLO returns ILBDA, and every run  *)
(* with a fresh engine of that configuration on ILBDA returns HELLO.       *)

C13_GoldenVector ==
    \A e \in Entries :
        /\ e.text = HELLO => e.out = ILBDA
        /\ e.text = ILBDA => e.out = HELLO

\* HELLO was encoded, then encoded again, then its ciphertext was decoded
C13_Witness ==
    /\ Len(log) = 3
    /\ log[1].text = HELLO /\ log[1].obfuscate /\ log[1].out = ILBDA
    /\ log[2].text = HELLO /\ log[2].out = ILBDA
    /\ log[3].text = ILBDA /\ ~log[3].obfuscate /\ log[3].out = HELLO

----------------------------------------------------------------------------
(* Regular expressions as the runtime matches them: by backtracking, each  *)
(* element trying its alternatives in priority order.  A position i in a   *)
(* text s lies before the character s[i + 1].                              *)

Digits == {"0", "1", "2", "3", "4", "5", "6", "7", "8", "9"}

\* \w
WordChars == UpperLetters \cup LowerLetters \cup Digits \cup {"_"}

\* the characters . does not match
LineTerminators == {"\n", "\r"}

\* a literal text
lit(str) == [t |-> "lit", str |-> str]

\* (a|b|c) over literal texts
alt(strs) == [t |-> "alt", strs |-> strs]

\* \b
wordBoundary == [t |-> "b"]

\* a character class [cs] or, negated, [^cs], taken at least min times and
\* either at most once or any number of times, greedily or lazily
rep(cs, negated, min, many, greedy) ==
    [t |-> "rep", cs |-> cs, negated |-> negated, min |-> min, many |-> many,
     greedy |-> greedy]

accepts(n, c) == IF n.negated THEN c \notin n.cs ELSE c \in n.cs

\* the least element of a non-empty set of integers
least(S) == CHOOSE x \in S : \A y \in S : x <= y

\* how many characters from position i on are accepted by the class of n
run(n, s, i) == least({k \in i..Len(s) : k = Len(s) \/ ~accepts(n, s[k + 1])}) - i

IsPosition(e) == e >= 0

startsWith(s, i, str) ==
    i + Len(str) <= Len(s) /\ SubSeq(s, i + 1, i + Len(str)) = str

\* the positions at which element n can end when it starts at i, best first
nodeEnds(n, s, i) ==
    CASE n.t = "lit" -> IF startsWith(s, i, n.str) THEN <<i + Len(n.str)>> ELSE << >>
      [] n.t = "alt" ->
            SelectSeq([k \in 1..Len(n.strs) |->
                          IF startsWith(s, i, n.strs[k]) THEN i + Len(n.strs[k]) ELSE -1],
                      IsPosition)
      [] n.t = "b" ->
            IF (i > 0 /\ s[i] \in WordChars) # (i < Len(s) /\ s[i + 1] \in WordChars)
            THEN <<i>> ELSE << >>
      [] n.t = "rep" ->
            LET m == IF n.many THEN run(n, s, i)
                     ELSE IF i < Len(s) /\ accepts(n, s[i + 1]) THEN 1 ELSE 0
            IN  IF m < n.min THEN << >>
                ELSE IF n.greedy THEN [k \in 1..(m - n.min + 1) |-> i + m - k + 1]
                ELSE [k \in 1..(m - n.min + 1) |-> i + n.min + k - 1]

IsMatch(m) == m # << >>

\* a way to match the rest, behind the end e of the element before it
behind(e, r) == IF r = << >> THEN << >> ELSE <<e>> \o r

\* A regular expression is a sequence of elements; a capture group spans from
\* the start of one element to the end of another.  The first successful way
\* to match elements k.. at position i, as <<end of element k, ..., end of
\* the last element>>, or << >> when there is none: the ends of element k
\* are tried in their order, each with the first way to match the rest.
RECURSIVE matchFrom(_, _, _, _)
matchFrom(re, k, s, i) ==
    LET es == nodeEnds(re[k], s, i)
    IN  IF k = Len(re) THEN (IF es = << >> THEN << >> ELSE <<es[1]>>)
        ELSE Head(SelectSeq([j \in 1..Len(es) |->
                                behind(es[j], matchFrom(re, k + 1, s, es[j]))],
                            IsMatch)
                  \o << << >> >>)

\* the match at position i as <<i, end of element 1, ..., end of the last
\* element>>, or << >>
matchAt(re, s, i) == behind(i, matchFrom(re, 1, s, i))

\* of the matches ms, in the order of their positions, those a global
\* regular expression finds from lastIndex = from on: the leftmost one, then
\* those behind its end (one further on when it is empty)
RECURSIVE matchesFrom(_, _, _)
matchesFrom(ms, j, from) ==
    IF j > Len(ms) THEN << >>
    ELSE IF ms[j][1] < from THEN matchesFrom(ms, j + 1, from)
    ELSE <<ms[j]>> \o matchesFrom(ms, j + 1,
                                  IF ms[j][Len(ms[j])] = ms[j][1] THEN ms[j][1] + 1
                                  ELSE ms[j][Len(ms[j])])

matchAll(re, s) ==
    matchesFrom(SelectSeq([i \in 1..(Len(s) + 1) |-> matchAt(re, s, i - 1)], IsMatch), 1, 0)

\* String.prototype.replace: match ms[k] of s gives way to reps[k]
RECURSIVE replaceFrom(_, _, _, _, _)
replaceFrom(s, ms, reps, k, prev) ==
    IF k > Len(ms) THEN SubSeq(s, prev + 1, Len(s))
    ELSE SubSeq(s, prev + 1, ms[k][1]) \o reps[k]
         \o replaceFrom(s, ms, reps, k + 1, ms[k][Len(ms[k])])

replace(s, ms, reps) == replaceFrom(s, ms, reps, 1, 0)

\* replace(regex, '')
remove(s, re) ==
    LET ms == matchAll(re, s)
    IN  replace(s, ms, [k \in 1..Len(ms) |-> << >>])

\* Array.prototype.join
RECURSIVE join(_, _)
join(parts, sep) ==
    IF parts = << >> THEN << >>
    ELSE IF Len(parts) = 1 THEN parts[1]
    ELSE parts[1] \o sep \o join(Tail(parts), sep)

----------------------------------------------------------------------------
(* The text passes of extension.ts                                         *)

\* line 207: /\b(let|const|var)\s+([a-zA-Z_$][\w$]*)\s*=\s*([^;]+);/g
\* elements: 1 \b, 2 (let|const|var), 3 \s+, 4-5 ([a-zA-Z_$][\w$]*), 6 \s*,
\* 7 =, 8 \s*, 9 ([^;]+), 10 ;
varRegex ==
    << wordBoundary,
       alt(<<<<"l", "e", "t">>, <<"c", "o", "n", "s", "t">>, <<"v", "a", "r">>>>),
       rep(WhiteSpace, FALSE, 1, TRUE, TRUE),
       rep(UpperLetters \cup LowerLetters \cup {"_", "$"}, FALSE, 1, FALSE, TRUE),
       rep(WordChars \cup {"$"}, FALSE, 0, TRUE, TRUE),
       rep(WhiteSpace, FALSE, 0, TRUE, TRUE),
       lit(<<"=">>),
       rep(WhiteSpace, FALSE, 0, TRUE, TRUE),
       rep({";"}, TRUE, 1, TRUE, TRUE),
       lit(<<";">>) >>

\* lines 208-211: `${keyword} ${name} = (${value} * 1 + 0);`; m[1] is the
\* start of the match and m[k + 1] the end of element k
hiddenDeclaration(code, m) ==
    LET keyword == SubSeq(code, m[2] + 1, m[3])
        name == SubSeq(code, m[4] + 1, m[6])
        value == SubSeq(code, m[9] + 1, m[10])
    IN  keyword \o <<" ">> \o name \o <<" ", "=", " ", "(">> \o value
        \o <<" ", "*", " ", "1", " ", "+", " ", "0", ")", ";">>

\* lines 206-212
applyVariableHiding(code) ==
    LET ms == matchAll(varRegex, code)
    IN  replace(code, ms, [k \in 1..Len(ms) |-> hiddenDeclaration(code, ms[k])])

\* lines 215-219
junkFunctions ==
    << \* '\nfunction _dummy1() { return Math.random() > 0.5; }'
       <<"\n", "f", "u", "n", "c", "t", "i", "o", "n", " ", "_", "d", "u",
         "m", "m", "y", "1", "(", ")", " ", "{", " ", "r", "e", "t", "u",
         "r", "n", " ", "M", "a", "t", "h", ".", "r", "a", "n", "d", "o",
         "m", "(", ")", " ", ">", " ", "0", ".", "5", ";", " ", "}">>,
       \* '\nfunction _dummy2(x) { if(x > 0) return x; else return -x; }'
       <<"\n", "f", "u", "n", "c", "t", "i", "o", "n", " ", "_", "d", "u",
         "m", "m", "y", "2", "(", "x", ")", " ", "{", " ", "i", "f", "(",
         "x", " ", ">", " ", "0", ")", " ", "r", "e", "t", "u", "r", "n",
         " ", "x", ";", " ", "e", "l", "s", "e", " ", "r", "e", "t", "u",
         "r", "n", " ", "-", "x", ";", " ", "}">>,
       \* '\nfunction _dummy3() { console.log(new Date().getTime()); }'
       <<"\n", "f", "u", "n", "c", "t", "i", "o", "n", " ", "_", "d", "u",
         "m", "m", "y", "3", "(", ")", " ", "{", " ", "c", "o", "n", "s",
         "o", "l", "e", ".", "l", "o", "g", "(", "n", "e", "w", " ", "D",
         "a", "t", "e", "(", ")", ".", "g", "e", "t", "T", "i", "m", "e",
         "(", ")", ")", ";", " ", "}">> >>

\* lines 224-230: line k is followed by junkFunctions[draw[k]] when draw[k] > 0
RECURSIVE withJunk(_, _, _)
withJunk(lines, draw, k) ==
    IF k > Len(lines) THEN << >>
    ELSE (IF draw[k] > 0 THEN <<lines[k], junkFunctions[draw[k]]>> ELSE <<lines[k]>>)
         \o withJunk(lines, draw, k + 1)

\* lines 214-233, the random numbers being the argument draw
injectJunkCode(code, draw) == join(withJunk(split(code, "\n"), draw, 1), <<"\n">>)

\* lines 236-240
dummyOps ==
    << \* 'const _t = performance.now();'
       <<"c", "o", "n", "s", "t", " ", "_", "t", " ", "=", " ", "p", "e",
         "r", "f", "o", "r", "m", "a", "n", "c", "e", ".", "n", "o", "w",
         "(", ")", ";">>,
       \* 'if(_t % 2 === 0) { /* even timestamp */ }'
       <<"i", "f", "(", "_", "t", " ", "%", " ", "2", " ", "=", "=", "=",
         " ", "0", ")", " ", "{", " ", "/", "*", " ", "e", "v", "e", "n",
         " ", "t", "i", "m", "e", "s", "t", "a", "m", "p", " ", "*", "/",
         " ", "}">>,
       \* 'try { _dummy1(); } catch(e) { /* silent */ }'
       <<"t", "r", "y", " ", "{", " ", "_", "d", "u", "m", "m", "y", "1",
         "(", ")", ";", " ", "}", " ", "c", "a", "t", "c", "h", "(", "e",
         ")", " ", "{", " ", "/", "*", " ", "s", "i", "l", "e", "n", "t",
         " ", "*", "/", " ", "}">> >>

\* lines 243-249, the statement put on the line itself
interleaveLineSameLine(line, d) ==
    IF trim(line) # << >> /\ d > 0 THEN line \o <<" ">> \o dummyOps[d] ELSE line

\* lines 243-249
interleaveLine(line, d) ==
    IF trim(line) # << >> /\ d > 0 THEN line \o <<"\n">> \o dummyOps[d] ELSE line

\* lines 235-251, the random numbers being the argument draw
interleaveCode(code, draw) ==
    LET lines == split(code, "\n")
    IN  join([k \in 1..Len(lines) |-> interleaveLine(lines[k], draw[k])], <<"\n">>)

\* line 255: /\bfunction\s+_dummy\d+[^}]+}/g
junkFunctionRegex ==
    << wordBoundary, lit(<<"f", "u", "n", "c", "t", "i", "o", "n">>),
       rep(WhiteSpace, FALSE, 1, TRUE, TRUE), lit(<<"_", "d", "u", "m", "m", "y">>),
       rep(Digits, FALSE, 1, TRUE, TRUE), rep({"}"}, TRUE, 1, TRUE, TRUE),
       lit(<<"}">>) >>

\* line 258: /const _t = performance\.now\(\);\n?/g
timestampRegex ==
    << lit(<<"c", "o", "n", "s", "t", " ", "_", "t", " ", "=", " ", "p",
             "e", "r", "f", "o", "r", "m", "a", "n", "c", "e", ".", "n",
             "o", "w", "(", ")", ";">>),
       rep({"\n"}, FALSE, 0, FALSE, TRUE) >>

\* line 259: /if\(_t % 2 === 0\)[^}]+}\n?/g
evenCheckRegex ==
    << lit(<<"i", "f", "(", "_", "t", " ", "%", " ", "2", " ", "=", "=",
             "=", " ", "0", ")">>),
       rep({"}"}, TRUE, 1, TRUE, TRUE), lit(<<"}">>),
       rep({"\n"}, FALSE, 0, FALSE, TRUE) >>

\* line 260: /try\s*{\s*_dummy\d+\(\);\s*}\s*catch\(e\)\s*{[^}]+}\n?/g
tryDummyRegex ==
    << lit(<<"t", "r", "y">>), rep(WhiteSpace, FALSE, 0, TRUE, TRUE), lit(<<"{">>),
       rep(WhiteSpace, FALSE, 0, TRUE, TRUE), lit(<<"_", "d", "u", "m", "m", "y">>),
       rep(Digits, FALSE, 1, TRUE, TRUE), lit(<<"(", ")", ";">>),
       rep(WhiteSpace, FALSE, 0, TRUE, TRUE), lit(<<"}">>),
       rep(WhiteSpace, FALSE, 0, TRUE, TRUE), lit(<<"c", "a", "t", "c", "h", "(", "e", ")">>),
       rep(WhiteSpace, FALSE, 0, TRUE, TRUE), lit(<<"{">>),
       rep({"}"}, TRUE, 1, TRUE, TRUE), lit(<<"}">>),
       rep({"\n"}, FALSE, 0, FALSE, TRUE) >>

\* line 263: /\((.*?)\s*\*\s*1\s*\+\s*0\)/g
\* elements: 1 \(, 2 (.*?), 3.. the rest
wrapperRegex ==
    << lit(<<"(">>),
       rep(LineTerminators, TRUE, 0, TRUE, FALSE),
       rep(WhiteSpace, FALSE, 0, TRUE, TRUE), lit(<<"*">>),
       rep(WhiteSpace, FALSE, 0, TRUE, TRUE), lit(<<"1">>),
       rep(WhiteSpace, FALSE, 0, TRUE, TRUE), lit(<<"+">>),
       rep(WhiteSpace, FALSE, 0, TRUE, TRUE), lit(<<"0", ")">>) >>

\* line 263: replace(..., '$1')
unwrap(code) ==
    LET ms == matchAll(wrapperRegex, code)
    IN  replace(code, ms, [k \in 1..Len(ms) |-> SubSeq(code, ms[k][2] + 1, ms[k][3])])

\* lines 253-266
removeObfuscation(code) ==
    unwrap(remove(remove(remove(remove(code, junkFunctionRegex), timestampRegex),
                         evenCheckRegex), tryDummyRegex))

----------------------------------------------------------------------------
(* The text passes applied to a code text, in the order the file flows use *)
(* them: applyVariableHiding, injectJunkCode, interleaveCode, and then     *)
(* removeObfuscation, once or twice.  Math.random is a free choice.        *)

\* most lines of a text that one randomized pass adds something to
MaxInserts == 1

Sources ==
    { \* the empty text
      << >>,
      \* one line
      <<"a">>,
      \* two lines
      <<"a", "\n", "b">>,
      \* a line and its line end
      <<"a", "\n">>,
      \* a declaration
      <<"l", "e", "t", " ", "x", " ", "=", " ", "1", ";">>,
      \* no space around =, two after the keyword
      <<"l", "e", "t", " ", " ", "x", "=", "1", ";">>,
      \* a call and a declaration on one line
      <<"f", "(", ")", ";", " ", "l", "e", "t", " ", "x", " ", "=", " ", "1",
        ";">>,
      \* a value with parentheses
      <<"v", "a", "r", " ", "s", " ", "=", " ", "g", "(", "1", ")", ";">>,
      \* a value over two lines
      <<"c", "o", "n", "s", "t", " ", "y", " ", "=", " ", "[", "1", ",",
        "\n", "2", "]", ";">>,
      \* a space before the semicolon
      <<"l", "e", "t", " ", "x", " ", "=", " ", "1", " ", ";">>,
      \* two declarations
      <<"l", "e", "t", " ", "x", " ", "=", " ", "1", ";", "\n", "v", "a",
        "r", " ", "y", " ", "=", " ", "2", ";">>,
      \* a wrapped value
      <<"(", "a", " ", "*", " ", "1", " ", "+", " ", "0", ")">>,
      \* a wrapper in a wrapper
      <<"(", "(", "a", " ", "*", " ", "1", " ", "+", " ", "0", ")", " ", "*",
        " ", "1", " ", "+", " ", "0", ")">> }

codecVars == <<pairsStr, plugboard, config, enigma, pc, calls, last,
               text, obfuscate, idx, transformed, log>>

PassesInit ==
    /\ source \in Sources
    /\ passes = << >>
    /\ pc = "passes"
    /\ config = BasicConfig
    /\ enigma = NoEnigma
    /\ calls = 0
    /\ last = NoResult
    /\ pairsStr = << >>
    /\ plugboard = NoResult
    /\ text = << >>
    /\ obfuscate = FALSE
    /\ idx = 0
    /\ transformed = << >>
    /\ log = << >>
    /\ codeAnalyzer = [none |-> TRUE]
    /\ files = << >>
    /\ cursor = 0
    /\ console = << >>
    /\ workspaceFolders = FALSE
    /\ analysis = [none |-> TRUE]
    /\ steps = << >>
    /\ NoDispatch
    /\ NoPanel

\* the text the next pass is handed
content == IF passes = << >> THEN source ELSE passes[Len(passes)].out

applied(pass) == {k \in 1..Len(passes) : passes[k].pass = pass}

\* what Math.random gives for the lines of a text: draw[k] = 0 when line k
\* gets nothing (also when Math.random is not called because the line is
\* blank), 1..3 for the entry of the list it gets
Draws(lines, blankToo) ==
    LET open == {k \in 1..Len(lines) : blankToo \/ trim(lines[k]) # << >>}
        picks == {S \in SUBSET open : Cardinality(S) <= MaxInserts}
    IN  UNION { {[k \in 1..Len(lines) |-> IF k \in S THEN f[k] ELSE 0] : f \in [S -> 1..3]} :
                S \in picks }

ApplyVariableHiding ==
    /\ pc = "passes"
    /\ passes = << >>
    /\ passes' = Append(passes, [pass |-> "applyVariableHiding", draw |-> << >>,
                                 out |-> applyVariableHiding(content)])
    /\ UNCHANGED <<source, codecVars, batchVars, dispatchVars, panelVars, taskVars>>

InjectJunkCode ==
    /\ pc = "passes"
    /\ applied("injectJunkCode") = {}
    /\ applied("interleaveCode") = {}
    /\ applied("removeObfuscation") = {}
    /\ \E d \in Draws(split(content, "\n"), TRUE) :
          passes' = Append(passes, [pass |-> "injectJunkCode", draw |-> d,
                                    out |-> injectJunkCode(content, d)])
    /\ UNCHANGED <<source, codecVars, batchVars, dispatchVars, panelVars, taskVars>>

InterleaveCode ==
    /\ pc = "passes"
    /\ applied("interleaveCode") = {}
    /\ applied("removeObfuscation") = {}
    /\ \E d \in Draws(split(content, "\n"), FALSE) :
          passes' = Append(passes, [pass |-> "interleaveCode", draw |-> d,
                                    out |-> interleaveCode(content, d)])
    /\ UNCHANGED <<source, codecVars, batchVars, dispatchVars, panelVars, taskVars>>

RemoveObfuscation ==
    /\ pc = "passes"
    /\ Cardinality(applied("removeObfuscation")) < 2
    /\ passes' = Append(passes, [pass |-> "removeObfuscation", draw |-> << >>,
                                 out |-> removeObfuscation(content)])
    /\ UNCHANGED <<source, codecVars, batchVars, dispatchVars, panelVars, taskVars>>

PassesNext ==
    \/ ApplyVariableHiding
    \/ InjectJunkCode
    \/ InterleaveCode
    \/ RemoveObfuscation

SpecPasses == PassesInit /\ [][PassesNext]_vars

\* the names of the passes applied so far
passNames == [k \in 1..Len(passes) |-> passes[k].pass]

----------------------------------------------------------------------------
(* C14. removeObfuscation is idempotent on every text X, also one with     *)
(* nested wrappers such as "((a * 1 + 0) * 1 + 0)": a second application   *)
(* returns what the first one returned.                                    *)

C14_RemovalIdempotent ==
    \A k \in 1..(Len(passes) - 1) :
        passes[k].pass = "removeObfuscation" /\ passes[k + 1].pass = "removeObfuscation"
            => passes[k + 1].out = passes[k].out

----------------------------------------------------------------------------
(* C15. For every text X that holds declarations `(let|const|var) NAME =   *)
(* VALUE;` (any white space around "=", values with parentheses or over    *)
(* several lines, other text on the line), removeObfuscation applied to    *)
(* applyVariableHiding(X) returns X exactly.                               *)

HasDeclaration(code) == matchAll(varRegex, code) # << >>

C15_WrapRoundTrip ==
    passNames = <<"applyVariableHiding", "removeObfuscation">> /\ HasDeclaration(source)
        => passes[2].out = source

----------------------------------------------------------------------------
(* C16. For every text X that holds none of the patterns removeObfuscation *)
(* strips, and for every outcome of the random choices, removeObfuscation  *)
(* applied to interleaveCode(injectJunkCode(X)) returns X character for    *)
(* character: no blank line and no line end is left behind.                *)

PatternFree(code) == removeObfuscation(code) = code

C16_RandomPassesReversible ==
    /\ passNames = <<"injectJunkCode", "interleaveCode", "removeObfuscation">>
    /\ PatternFree(source)
    => passes[3].out = source

----------------------------------------------------------------------------
(* CodeAnalyzer (src/src/ml/codeAnalyzer.ts).  Scores are in tenths; the   *)
(* network and the parser are the environment.                             *)

\* `let codeAnalyzer: CodeAnalyzer;` before its first assignment
Undefined == [none |-> TRUE]

\* lines 196-202: the value analyzeCode returns from its catch
DefaultAnalysis ==
    [complexity |-> 5, securityRisk |-> 5, performanceImpact |-> 5,
     obfuscationLevel |-> 5, suggestedStrategies |-> << >>]

\* outputs of model.predict: complexity, securityRisk, performanceImpact,
\* obfuscationLevel
HighPrediction ==
    [complexity |-> 7, securityRisk |-> 7, performanceImpact |-> 5, obfuscationLevel |-> 5]

Predictions ==
    { HighPrediction,
      [complexity |-> 6, securityRisk |-> 5, performanceImpact |-> 6, obfuscationLevel |-> 5],
      [complexity |-> 5, securityRisk |-> 5, performanceImpact |-> 5, obfuscationLevel |-> 5] }

\* what tokenizeCode and model.predict do in one analyzeCode call; prediction
\* is the output of the network when there is a model and it returns
Environments ==
    {[tokenizeCode |-> "returns", predict |-> "returns", prediction |-> m] : m \in Predictions}
    \cup {[tokenizeCode |-> "throws", predict |-> "returns", prediction |-> HighPrediction],
          [tokenizeCode |-> "returns", predict |-> "throws", prediction |-> HighPrediction]}

\* lines 87-116 (intensity left out)
generateStrategies(metrics) ==
    (IF metrics.complexity > 6
     THEN <<[type |-> "structural", technique |-> "controlFlowFlattening"]>> ELSE << >>)
    \o (IF metrics.securityRisk > 5
        THEN <<[type |-> "encryption", technique |-> "variableEncryption"]>> ELSE << >>)
    \o (IF metrics.performanceImpact < 6
        THEN <<[type |-> "optimization", technique |-> "deadCodeInjection"]>> ELSE << >>)

\* an analyzeCode without its try/catch result: the strategies of the
\* prediction whatever happened
analyzeCodeKeepsPrediction(model, env) ==
    [complexity |-> env.prediction.complexity,
     securityRisk |-> env.prediction.securityRisk,
     performanceImpact |-> env.prediction.performanceImpact,
     obfuscationLevel |-> env.prediction.obfuscationLevel,
     suggestedStrategies |-> generateStrategies(env.prediction)]

\* whether the try block of analyzeCode throws: tokenizeCode throws, or
\* this.model is null, or predict throws
analysisFails(model, env) ==
    env.tokenizeCode = "throws" \/ model = "null" \/ env.predict = "throws"

\* lines 167-204
analyzeCode(model, env) ==
    IF analysisFails(model, env) THEN DefaultAnalysis
    ELSE [complexity |-> env.prediction.complexity,
          securityRisk |-> env.prediction.securityRisk,
          performanceImpact |-> env.prediction.performanceImpact,
          obfuscationLevel |-> env.prediction.obfuscationLevel,
          suggestedStrategies |-> generateStrategies(env.prediction)]

----------------------------------------------------------------------------
(* processFilesUsingEnigma(config, obfuscate): one call after the other.   *)
(* The content of a file is followed as the sequence of calls made on it.  *)

\* most files in the workspace
MaxFiles == 2

\* line 304
fileExtensions ==
    <<<<".", "p", "y">>,
      <<".", "j", "s">>,
      <<".", "t", "s">>,
      <<".", "j", "a", "v", "a">>,
      <<".", "c", "p", "p">>,
      <<".", "c">>,
      <<".", "h", "t", "m", "l">>,
      <<".", "c", "s", "s">>>>

\* the last place of the character in the path, 0 when it is not there
lastIndexOf(p, c) ==
    IF \E k \in 1..Len(p) : p[k] = c
    THEN CHOOSE k \in 1..Len(p) : p[k] = c /\ \A j \in (k + 1)..Len(p) : p[j] # c
    ELSE 0

\* line 309, path.extname: from the last dot of the last path segment to the
\* end, empty when that segment has no dot or only the one it starts with
extname(p) ==
    IF lastIndexOf(p, ".") <= lastIndexOf(p, "/") + 1 THEN << >>
    ELSE SubSeq(p, lastIndexOf(p, "."), Len(p))

\* line 305: paths findFiles returns
FilePaths ==
    {<<"s", "r", "c", "/", "a", ".", "t", "s">>,
     <<"R", "E", "A", "D", "M", "E", ".", "m", "d">>,
     <<"A", ".", "T", "S">>,
     <<".", "j", "s">>,
     <<"v", "1", ".", "2", "/", "M", "a", "k", "e", "f", "i", "l", "e">>}

Extensions == {extname(p) : p \in FilePaths}

\* a file as findFiles returns it, before the loop has come to it
File(ext) ==
    [ext |-> ext, outcome |-> "untouched", content |-> << >>, writes |-> 0,
     env |-> [none |-> TRUE], analysis |-> [none |-> TRUE]]

Workspaces ==
    UNION {[1..n -> {File(ext) : ext \in Extensions}] : n \in 0..MaxFiles}

BatchInit ==
    /\ files \in Workspaces
    /\ workspaceFolders \in BOOLEAN
    /\ config \in {BasicConfig, UnknownRotorConfig}
    /\ codeAnalyzer = Undefined
    /\ pc = "waiting"
    /\ obfuscate = FALSE
    /\ cursor = 0
    /\ console = << >>
    /\ analysis = [none |-> TRUE]
    /\ steps = << >>
    /\ NoDispatch
    /\ NoPanel
    /\ source = << >>
    /\ passes = << >>
    /\ enigma = NoEnigma
    /\ calls = 0
    /\ last = NoResult
    /\ pairsStr = << >>
    /\ plugboard = NoResult
    /\ text = << >>
    /\ idx = 0
    /\ transformed = << >>
    /\ log = << >>

engineVars == <<pairsStr, plugboard, enigma, calls, last, text, idx, transformed, log>>

\* lines 532, 536, 613: a message handler calls processFilesUsingEnigma; the
\* workspace is as no call had touched it
Call(flag) ==
    /\ pc \in {"waiting", "returned", "rejected"}
    /\ obfuscate' = flag
    /\ files' = [k \in 1..Len(files) |-> File(files[k].ext)]
    /\ cursor' = 0
    /\ console' = << >>
    /\ analysis' = [none |-> TRUE]
    /\ steps' = << >>
    /\ pc' = "entered"
    /\ UNCHANGED <<config, codeAnalyzer, workspaceFolders, passVars, dispatchVars, engineVars,
                   panelVars, taskVars>>

\* lines 296-297
LazyInit ==
    /\ pc = "entered"
    /\ IF codeAnalyzer = Undefined
       THEN codeAnalyzer' = [model |-> "null"] /\ pc' = "initialize"
       ELSE codeAnalyzer' = codeAnalyzer /\ pc' = "workspace"
    /\ UNCHANGED <<config, obfuscate, files, cursor, console, workspaceFolders, analysis,
                   steps, passVars, dispatchVars, engineVars, panelVars, taskVars>>

\* line 298, initialize (codeAnalyzer.ts 15-18) returns
InitializeReturns ==
    /\ pc = "initialize"
    /\ codeAnalyzer' = [model |-> "ready"]
    /\ pc' = "workspace"
    /\ UNCHANGED <<config, obfuscate, files, cursor, console, workspaceFolders, analysis,
                   steps, passVars, dispatchVars, engineVars, panelVars, taskVars>>

\* line 298, buildModel throws: this.model stays null and the call rejects
BuildModelThrows ==
    /\ pc = "initialize"
    /\ pc' = "rejected"
    /\ UNCHANGED <<config, obfuscate, codeAnalyzer, files, cursor, console,
                   workspaceFolders, analysis, steps, passVars, dispatchVars, engineVars,
                   panelVars, taskVars>>

\* line 298, loadPretrainedWeights rethrows (codeAnalyzer.ts 36-39): this.model
\* is the built model and the call rejects
LoadWeightsThrows ==
    /\ pc = "initialize"
    /\ codeAnalyzer' = [model |-> "built"]
    /\ pc' = "rejected"
    /\ UNCHANGED <<config, obfuscate, files, cursor, console, workspaceFolders, analysis,
                   steps, passVars, dispatchVars, engineVars, panelVars, taskVars>>

\* lines 300-305
WorkspaceCheck ==
    /\ pc = "workspace"
    /\ pc' = IF workspaceFolders THEN "loop" ELSE "returned"
    /\ UNCHANGED <<config, obfuscate, codeAnalyzer, files, cursor, console,
                   workspaceFolders, analysis, steps, passVars, dispatchVars, engineVars,
                   panelVars, taskVars>>

\* the loop without the test of line 310
LoopHeadEveryFile ==
    /\ pc = "loop"
    /\ IF cursor = Len(files) THEN pc' = "returned" /\ cursor' = cursor
       ELSE pc' = "read" /\ cursor' = cursor
    /\ UNCHANGED <<config, obfuscate, codeAnalyzer, files, console, workspaceFolders,
                   analysis, steps, passVars, dispatchVars, engineVars,
                   panelVars, taskVars>>

\* lines 307-310: the next file, if any, and the test of its extension
LoopHead ==
    /\ pc = "loop"
    /\ IF cursor = Len(files) THEN pc' = "returned" /\ cursor' = cursor
       ELSE IF files[cursor + 1].ext \in Range(fileExtensions)
            THEN pc' = "read" /\ cursor' = cursor
            ELSE pc' = "loop" /\ cursor' = cursor + 1
    /\ UNCHANGED <<config, obfuscate, codeAnalyzer, files, console, workspaceFolders,
                   analysis, steps, passVars, dispatchVars, engineVars,
                   panelVars, taskVars>>

\* the file the loop is at ends with the given outcome
withOutcome(outcome) == [files EXCEPT ![cursor + 1].outcome = outcome]

\* line 312
ReadFile ==
    /\ pc = "read"
    /\ steps' = << >>
    /\ pc' = IF obfuscate THEN "analyze" ELSE "cipher"
    /\ UNCHANGED <<config, obfuscate, codeAnalyzer, files, cursor, console,
                   workspaceFolders, analysis, passVars, dispatchVars, engineVars,
                   panelVars, taskVars>>

ReadFileThrows ==
    /\ pc = "read"
    /\ files' = withOutcome("readFileSync threw")
    /\ pc' = "catch"
    /\ UNCHANGED <<config, obfuscate, codeAnalyzer, cursor, console, workspaceFolders,
                   analysis, steps, passVars, dispatchVars, engineVars,
                   panelVars, taskVars>>

\* line 316
AnalyzeCode ==
    /\ pc = "analyze"
    /\ \E env \in Environments :
          /\ analysis' = analyzeCode(codeAnalyzer.model, env)
          /\ files' = [files EXCEPT ![cursor + 1].env = env,
                                    ![cursor + 1].analysis = analysis']
    /\ steps' = Append(steps, "analyzeCode")
    /\ pc' = "strategies"
    /\ UNCHANGED <<config, obfuscate, codeAnalyzer, cursor, console, workspaceFolders,
                   passVars, dispatchVars, engineVars, panelVars, taskVars>>

\* lines 280-290: the function a technique stands for, none for any other
techniqueCall(technique) ==
    CASE technique = "controlFlowFlattening" -> <<"flattenControlFlow">>
      [] technique = "variableEncryption" -> <<"applyVariableHiding">>
      [] technique = "deadCodeInjection" -> <<"injectJunkCode">>
      [] OTHER -> << >>

\* a loop that goes through the strategies from the last to the first
RECURSIVE applyObfuscationStrategiesBackwards(_)
applyObfuscationStrategiesBackwards(strategies) ==
    IF strategies = << >> THEN << >>
    ELSE applyObfuscationStrategiesBackwards(Tail(strategies))
         \o techniqueCall(Head(strategies).technique)

\* lines 278-293: the calls made for a list of strategies
RECURSIVE applyObfuscationStrategies(_)
applyObfuscationStrategies(strategies) ==
    IF strategies = << >> THEN << >>
    ELSE techniqueCall(Head(strategies).technique)
         \o applyObfuscationStrategies(Tail(strategies))

\* line 317
ApplyStrategies ==
    /\ pc = "strategies"
    /\ steps' = steps \o applyObfuscationStrategies(analysis.suggestedStrategies)
    /\ pc' = "hide"
    /\ UNCHANGED <<config, obfuscate, codeAnalyzer, files, cursor, console,
                   workspaceFolders, analysis, passVars, dispatchVars, engineVars,
                   panelVars, taskVars>>

\* line 318
HideVariables ==
    /\ pc = "hide"
    /\ steps' = Append(steps, "applyVariableHiding")
    /\ pc' = "junk"
    /\ UNCHANGED <<config, obfuscate, codeAnalyzer, files, cursor, console,
                   workspaceFolders, analysis, passVars, dispatchVars, engineVars,
                   panelVars, taskVars>>

\* line 319
InjectJunk ==
    /\ pc = "junk"
    /\ steps' = Append(steps, "injectJunkCode")
    /\ pc' = "interleave"
    /\ UNCHANGED <<config, obfuscate, codeAnalyzer, files, cursor, console,
                   workspaceFolders, analysis, passVars, dispatchVars, engineVars,
                   panelVars, taskVars>>

\* line 320
Interleave ==
    /\ pc = "interleave"
    /\ steps' = Append(steps, "interleaveCode")
    /\ pc' = "cipher"
    /\ UNCHANGED <<config, obfuscate, codeAnalyzer, files, cursor, console,
                   workspaceFolders, analysis, passVars, dispatchVars, engineVars,
                   panelVars, taskVars>>

\* lines 322 and 325: enigmaObfuscate returns, or throws on a rotor or
\* reflector name without wiring table
Cipher ==
    /\ pc = "cipher"
    /\ IF WiringsResolve(config)
       THEN /\ steps' = Append(steps, "enigmaObfuscate")
            /\ pc' = IF obfuscate THEN "write" ELSE "remove"
            /\ files' = files
       ELSE /\ steps' = steps
            /\ pc' = "catch"
            /\ files' = withOutcome("enigmaObfuscate threw")
    /\ UNCHANGED <<config, obfuscate, codeAnalyzer, cursor, console, workspaceFolders,
                   analysis, passVars, dispatchVars, engineVars, panelVars, taskVars>>

\* line 327
Remove ==
    /\ pc = "remove"
    /\ steps' = Append(steps, "removeObfuscation")
    /\ pc' = "write"
    /\ UNCHANGED <<config, obfuscate, codeAnalyzer, files, cursor, console,
                   workspaceFolders, analysis, passVars, dispatchVars, engineVars,
                   panelVars, taskVars>>

\* line 330, and on to the next file
WriteFile ==
    /\ pc = "write"
    /\ files' = [files EXCEPT ![cursor + 1].outcome = "written",
                              ![cursor + 1].content = steps,
                              ![cursor + 1].writes = @ + 1]
    /\ cursor' = cursor + 1
    /\ pc' = "loop"
    /\ UNCHANGED <<config, obfuscate, codeAnalyzer, console, workspaceFolders, analysis,
                   steps, passVars, dispatchVars, engineVars, panelVars, taskVars>>

WriteFileThrows ==
    /\ pc = "write"
    /\ files' = withOutcome("writeFileSync threw")
    /\ pc' = "catch"
    /\ UNCHANGED <<config, obfuscate, codeAnalyzer, cursor, console, workspaceFolders,
                   analysis, steps, passVars, dispatchVars, engineVars,
                   panelVars, taskVars>>

\* a catch that logs and throws again: the call rejects
CatchRethrows ==
    /\ pc = "catch"
    /\ console' = Append(console, cursor + 1)
    /\ pc' = "rejected"
    /\ UNCHANGED <<config, obfuscate, codeAnalyzer, files, cursor, workspaceFolders,
                   analysis, steps, passVars, dispatchVars, engineVars,
                   panelVars, taskVars>>

\* lines 331-333, and on to the next file
Catch ==
    /\ pc = "catch"
    /\ console' = Append(console, cursor + 1)
    /\ cursor' = cursor + 1
    /\ pc' = "loop"
    /\ UNCHANGED <<config, obfuscate, codeAnalyzer, files, workspaceFolders, analysis,
                   steps, passVars, dispatchVars, engineVars, panelVars, taskVars>>

BatchNext ==
    \/ \E flag \in BOOLEAN : Call(flag)
    \/ LazyInit
    \/ InitializeReturns
    \/ BuildModelThrows
    \/ LoadWeightsThrows
    \/ WorkspaceCheck
    \/ LoopHead
    \/ ReadFile
    \/ ReadFileThrows
    \/ AnalyzeCode
    \/ ApplyStrategies
    \/ HideVariables
    \/ InjectJunk
    \/ Interleave
    \/ Cipher
    \/ Remove
    \/ WriteFile
    \/ WriteFileThrows
    \/ Catch

SpecBatch == BatchInit /\ [][BatchNext]_vars

Allowed(k) == files[k].ext \in Range(fileExtensions)

\* the call has gone through the whole loop and returned
LoopFinished == pc = "returned" /\ workspaceFolders /\ cursor = Len(files)

Threw == {"readFileSync threw", "enigmaObfuscate threw", "writeFileSync threw"}

Analysed(k) == "tokenizeCode" \in DOMAIN files[k].env

----------------------------------------------------------------------------
(* C17. When reading, transforming or writing one allow-listed file        *)
(* throws, the error stays with that file: the call is not rejected, the   *)
(* loop goes on, and at its end every allow-listed file is either written  *)
(* or is itself one that threw and was logged.                             *)

C17_FileErrorContained ==
    /\ pc = "rejected" =>
          console = << >> /\ \A k \in 1..Len(files) : files[k].outcome = "untouched"
    /\ pc = "loop" => \A k \in 1..cursor : Allowed(k) => files[k].outcome # "untouched"
    /\ LoopFinished =>
          \A k \in 1..Len(files) :
              Allowed(k) =>
                  \/ files[k].outcome = "written"
                  \/ files[k].outcome \in Threw /\ k \in Range(console)

\* the loop is through: a file whose write threw, a file after it written
C17_Witness ==
    /\ LoopFinished
    /\ \E j, k \in 1..Len(files) :
          /\ j < k
          /\ files[j].outcome = "writeFileSync threw"
          /\ files[k].outcome = "written"

----------------------------------------------------------------------------
(* C18. When tokenizeCode or the prediction throws inside analyzeCode, or  *)
(* the model is null, analyzeCode returns the fixed default (all scores    *)
(* 0.5, no strategies), and the file is still variable-wrapped,            *)
(* junk-injected, interleaved, enciphered and written (unless the cipher   *)
(* or the write itself throws).                                            *)

C18_AnalysisFailureIsDefault ==
    \A k \in 1..Len(files) :
        Analysed(k) /\ analysisFails(codeAnalyzer.model, files[k].env) =>
            /\ files[k].analysis = DefaultAnalysis
            /\ files[k].outcome = "written" =>
                  files[k].content = <<"analyzeCode", "applyVariableHiding",
                                       "injectJunkCode", "interleaveCode", "enigmaObfuscate">>
            /\ LoopFinished =>
                  files[k].outcome \in {"written", "enigmaObfuscate threw",
                                        "writeFileSync threw"}

\* a call made after a failed buildModel: the model is null, tokenizeCode
\* and predict would return, and the file is written
C18_Witness ==
    /\ LoopFinished
    /\ codeAnalyzer = [model |-> "null"]
    /\ \E k \in 1..Len(files) :
          /\ Analysed(k)
          /\ files[k].env.tokenizeCode = "returns" /\ files[k].env.predict = "returns"
          /\ files[k].outcome = "written"

----------------------------------------------------------------------------
(* C19. A classifier that fails to initialize never blocks the files: when *)
(* initialize() throws, the call still transforms and writes every         *)
(* allow-listed file, obfuscating or deobfuscating.                        *)

C19_InitFailureDoesNotBlock ==
    pc = "rejected" /\ workspaceFolders /\ WiringsResolve(config) =>
        \A k \in 1..Len(files) : Allowed(k) => files[k].outcome = "written"

----------------------------------------------------------------------------
(* C20. Every file written by an obfuscating call went through analyze,    *)
(* the suggested strategies in list order, variable wrap, junk injection,  *)
(* dummy interleave and the cipher, in this order; every file written by a *)
(* deobfuscating call went through the cipher and then the removal pass;   *)
(* and a file is written once.                                             *)

\* the function the flow runs for strategy j of a list
strategyCall(strategies, j) ==
    IF strategies[j].technique = "controlFlowFlattening" THEN "flattenControlFlow"
    ELSE IF strategies[j].technique = "variableEncryption" THEN "applyVariableHiding"
    ELSE "injectJunkCode"

obfuscateFlow(strategies) ==
    <<"analyzeCode">>
    \o [j \in 1..Len(strategies) |-> strategyCall(strategies, j)]
    \o <<"applyVariableHiding", "injectJunkCode", "interleaveCode", "enigmaObfuscate">>

deobfuscateFlow == <<"enigmaObfuscate", "removeObfuscation">>

IsPrefix(a, b) == Len(a) <= Len(b) /\ a = SubSeq(b, 1, Len(a))

C20_StepOrder ==
    /\ \A k \in 1..Len(files) :
          /\ files[k].writes = IF files[k].outcome = "written" THEN 1 ELSE 0
          /\ files[k].outcome = "written" =>
                files[k].content = IF obfuscate
                                   THEN obfuscateFlow(files[k].analysis.suggestedStrategies)
                                   ELSE deobfuscateFlow
    /\ pc \in {"hide", "junk", "interleave", "cipher", "remove", "write"} =>
          IsPrefix(steps, IF obfuscate THEN obfuscateFlow(analysis.suggestedStrategies)
                          ELSE deobfuscateFlow)

\* an obfuscating call has written a file for which three strategies were
\* suggested
C20_Witness ==
    /\ LoopFinished
    /\ obfuscate
    /\ \E k \in 1..Len(files) :
          /\ files[k].outcome = "written"
          /\ Len(files[k].analysis.suggestedStrategies) = 3
----------------------------------------------------------------------------
(* Rotor.setRing and Rotor.rotateToLetter over every ring value and every  *)
(* start letter: the set-up of enigmaObfuscate run on its own              *)

\* the letter k places after c in the alphabet
letterAfter(c, k) == charAt(ALPHABET, (strIndexOf(ALPHABET, c) + k) % 26)

CalibrationConfigs ==
    { Config(ro, <<st, "A", letterAfter(st, 25)>>, <<ri, letterAfter(ri, 1), "A">>, << >>, <<"B">>) :
        ro \in { <<"I", "-", "I", "I", "-", "I", "I", "I">>,
                <<"V", "-", "I", "V", "-", "I", "I">> },
        st \in UpperLetters,
        ri \in UpperLetters }

CalibrationInit ==
    /\ config \in CalibrationConfigs
    /\ pc = "new"
    /\ enigma = NoEnigma
    /\ calls = 0
    /\ last = NoResult
    /\ pairsStr = << >>
    /\ plugboard = NoResult
    /\ text = << >>
    /\ obfuscate = FALSE
    /\ idx = 0
    /\ transformed = << >>
    /\ log = << >>
    /\ NoPassNoBatch
    /\ NoDispatch
    /\ NoPanel

CalibrationNext ==
    \/ NewEnigma
    \/ SetRings
    \/ SetKey

SpecCalibration == CalibrationInit /\ [][CalibrationNext]_vars

rotorAt(e, k) == IF k = 1 THEN e.r1 ELSE IF k = 2 THEN e.r2 ELSE e.r3

\* arr turned d places: position i holds what position i + d held (0-based, mod 26)
turnedBy(arr, d) == [i \in 1..26 |-> arr[((i - 1 + d) % 26) + 1]]

\* C27: for n in 1..26 setRing(n) leaves both tables of the rotor equal to
\* the tables it was built with shifted n - 1 places backward and the notch
\* at the letter (oldNotch - (n - 1)) mod 26, so setRing(1) changes nothing;
\* rotateToLetter(L) leaves both tables shifted position(L) places forward
\* and the notch alone, so rotateToLetter("A") changes nothing
C27_Calibration ==
    /\ pc = "ringed" =>
          \A k \in 1..3 :
              LET n == strIndexOf(ALPHABET, config.rings[k]) + 1
                  built == rotorAt(newEnigma(config), k)
                  now == rotorAt(enigma, k)
              IN  /\ n \in 1..26
                  /\ now.left = turnedBy(built.left, -(n - 1))
                  /\ now.right = turnedBy(built.right, -(n - 1))
                  /\ now.notch = charAt(ALPHABET, (strIndexOf(ALPHABET, built.notch) - (n - 1)) % 26)
                  /\ n = 1 => now = built
    /\ pc = "ready" =>
          \A k \in 1..3 :
              LET p == strIndexOf(ALPHABET, config.rotorStart[k])
                  ringed == rotorAt(setRings(newEnigma(config), ringNumbers(config)), k)
                  now == rotorAt(enigma, k)
              IN  /\ now.left = turnedBy(ringed.left, p)
                  /\ now.right = turnedBy(ringed.right, p)
                  /\ now.notch = ringed.notch
                  /\ p = 0 => now = ringed

C27_Witness ==
    /\ pc = "ready"
    /\ config.rings = <<"Z", "A", "A">>
    /\ config.rotorStart = <<"Q", "A", "P">>
    /\ enigma.r1.left[1] = "R"
    /\ enigma.r2 = newEnigma(config).r2
----------------------------------------------------------------------------
(* The techniques flattenControlFlow, insertOpaquePredicates and           *)
(* encodeArithmetic of extension.ts                                        *)

digitChars == <<"0", "1", "2", "3", "4", "5", "6", "7", "8", "9">>

\* the decimal digits a template literal prints for an integer n >= 0
RECURSIVE decimal(_)
decimal(n) == IF n < 10 THEN <<digitChars[n + 1]>> ELSE decimal(n \div 10) \o <<digitChars[(n % 10) + 1]>>

\* `${n}` for an integer n; -0 prints as 0
numberText(n) == IF n < 0 THEN <<"-">> \o decimal(-n) ELSE decimal(n)

\* parseInt of a text of decimal digits
RECURSIVE parseInt(_)
parseInt(str) ==
    IF str = << >> THEN 0
    ELSE 10 * parseInt(SubSeq(str, 1, Len(str) - 1)) + indexOf(digitChars, str[Len(str)])

\* lines 162-168: the three lines pushed for line i (0-based)
flattenedCase(line, i) ==
    << <<"c", "a", "s", "e", " ">> \o decimal(i) \o <<":", " ", "/", "/", " ">> \o trim(line),
       line,
       <<"s", "t", "a", "t", "e", " ", "=", " ">> \o decimal(i + 1) \o <<";", " ", "b", "r", "e", "a",
                                             "k", ";">> >>

RECURSIVE flattened(_, _)
flattened(lines, i) ==
    IF i >= Len(lines) THEN << >> ELSE flattenedCase(lines[i + 1], i) \o flattened(lines, i + 1)

\* a program whose cases are numbered from 1
flattenControlFlowFromOne(code) ==
    LET lines == split(code, "\n")
    IN  <<"l", "e", "t", " ", "s", "t", "a", "t", "e", " ", "=", " ", "0",
            ";", "\n", "w", "h", "i", "l", "e", " ", "(", "s", "t", "a", "t",
            "e", " ", "<", " ">> \o decimal(Len(lines))
        \o <<")", " ", "{", "\n", " ", " ", "s", "w", "i", "t", "c", "h",
               "(", "s", "t", "a", "t", "e", ")", " ", "{", "\n", " ", " ",
               " ", " ">>
        \o join([k \in 1..(3 * Len(lines)) |->
                    flattenedCase(lines[((k - 1) \div 3) + 1], ((k - 1) \div 3) + 1)[((k - 1) % 3) + 1]],
                <<"\n", " ", " ", " ", " ">>)
        \o <<"\n", " ", " ", "}", "\n", "}">>

\* lines 155-172
flattenControlFlow(code) ==
    LET lines == split(code, "\n")
    IN  <<"l", "e", "t", " ", "s", "t", "a", "t", "e", " ", "=", " ", "0",
            ";", "\n", "w", "h", "i", "l", "e", " ", "(", "s", "t", "a", "t",
            "e", " ", "<", " ">> \o decimal(Len(lines))
        \o <<")", " ", "{", "\n", " ", " ", "s", "w", "i", "t", "c", "h",
               "(", "s", "t", "a", "t", "e", ")", " ", "{", "\n", " ", " ",
               " ", " ">>
        \o join(flattened(lines, 0), <<"\n", " ", " ", " ", " ">>)
        \o <<"\n", " ", " ", "}", "\n", "}">>

\* lines 175-179
predicates ==
    << <<"(", "x", " ", "*", " ", "x", " ", "-", " ", "x", ")", " ", ">",
           "=", " ", "0">>,
       <<"(", "x", " ", "&", " ", "1", ")", " ", "=", "=", " ", "0", " ",
           "|", "|", " ", "(", "x", " ", "&", " ", "1", ")", " ", "=", "=",
           " ", "1">>,
       <<"M", "a", "t", "h", ".", "s", "i", "n", "(", "x", ")", " ", "*",
           " ", "M", "a", "t", "h", ".", "s", "i", "n", "(", "x", ")", " ",
           "+", " ", "M", "a", "t", "h", ".", "c", "o", "s", "(", "x", ")",
           " ", "*", " ", "M", "a", "t", "h", ".", "c", "o", "s", "(", "x",
           ")", " ", "=", "=", " ", "1">> >>

\* a pass that wraps whatever line the random number picks
opaqueLineAlways(line, d) ==
    IF d > 0
    THEN <<"i", "f", " ", "(">> \o predicates[d] \o <<")", " ", "{", "\n", " ", " ">> \o line
         \o <<"\n", "}", " ", "e", "l", "s", "e", " ", "{", " ", "t", "h",
                "r", "o", "w", " ", "n", "e", "w", " ", "E", "r", "r", "o",
                "r", "(", "'", "I", "m", "p", "o", "s", "s", "i", "b", "l",
                "e", "'", ")", ";", " ", "}">>
    ELSE line

\* lines 182-186: d = 0 when Math.random() >= 0.2, else the entry of predicates
opaqueLine(line, d) ==
    IF trim(line) # << >> /\ d > 0
    THEN <<"i", "f", " ", "(">> \o predicates[d] \o <<")", " ", "{", "\n", " ", " ">> \o line
         \o <<"\n", "}", " ", "e", "l", "s", "e", " ", "{", " ", "t", "h",
                "r", "o", "w", " ", "n", "e", "w", " ", "E", "r", "r", "o",
                "r", "(", "'", "I", "m", "p", "o", "s", "s", "i", "b", "l",
                "e", "'", ")", ";", " ", "}">>
    ELSE line

\* lines 174-188, the random numbers being the argument draw
insertOpaquePredicates(code, draw) ==
    LET lines == split(code, "\n")
    IN  join([k \in 1..Len(lines) |-> opaqueLine(lines[k], draw[k])], <<"\n">>)

\* x & 1 on a 32-bit integer
bitAndOne(x) == x % 2

\* the value of the first two entries of predicates for an integer x
predicateHolds(d, x) ==
    IF d = 1 THEN (x * x - x) >= 0
    ELSE bitAndOne(x) = 0 \/ bitAndOne(x) = 1

\* lines 193-195: /([w.]+)\s*OP\s*(\d+)/g for OP one of + * -
\* elements: 1 ([w.]+), 2 \s*, 3 OP, 4 \s*, 5 (\d+)
arithmeticRegex(op) ==
    << rep({"w", "."}, FALSE, 1, TRUE, TRUE),
       rep(WhiteSpace, FALSE, 0, TRUE, TRUE),
       lit(<<op>>),
       rep(WhiteSpace, FALSE, 0, TRUE, TRUE),
       rep(Digits, FALSE, 1, TRUE, TRUE) >>

\* Math.log2 of a power of two
log2(n) == CHOOSE e \in 0..31 : 2 ^ e = n

\* Math.log2 of the literals of the texts below that are not powers of two,
\* as the template of line 194 prints it
log2Printed ==
    3 :> <<"1", ".", "5", "8", "4", "9", "6", "2", "5", "0", "0", "7", "2",
             "1", "1", "5", "6">>
    @@ 5 :> <<"2", ".", "3", "2", "1", "9", "2", "8", "0", "9", "4", "8",
                "8", "7", "3", "6", "2">>
    @@ 6 :> <<"2", ".", "5", "8", "4", "9", "6", "2", "5", "0", "0", "7",
                "2", "1", "1", "5", "6">>
    @@ 7 :> <<"2", ".", "8", "0", "7", "3", "5", "4", "9", "2", "2", "0",
                "5", "7", "6", "0", "4">>

\* line 194: ${Math.log2(parseInt(b))}
log2Text(n) ==
    IF \E e \in 0..30 : 2 ^ e = n THEN numberText(log2(n))
    ELSE IF n = 0 THEN <<"-", "I", "n", "f", "i", "n", "i", "t", "y">>
    ELSE log2Printed[n]

\* line 193: `(${a} - (${-parseInt(b)}))`
encodedSum(a, b) == <<"(">> \o a \o <<" ", "-", " ", "(">> \o numberText(-parseInt(b)) \o <<
                                                                                ")",
                                                                                ")">>

\* line 194: `((${a} << ${Math.log2(parseInt(b))}) + ${a} * ${parseInt(b) % 2})`
encodedProduct(a, b) ==
    <<"(", "(">> \o a \o <<" ", "<", "<", " ">> \o log2Text(parseInt(b)) \o <<")", " ",
                                                                    "+", " ">> \o a
    \o <<" ", "*", " ">> \o numberText(parseInt(b) % 2) \o <<")">>

\* line 195: `(${a} + (${-parseInt(b)}))`
encodedDifference(a, b) == <<"(">> \o a \o <<" ", "+", " ", "(">> \o numberText(-parseInt(b)) \o <<
                                                                                       ")",
                                                                                       ")">>

encoded(op, a, b) ==
    IF op = "+" THEN encodedSum(a, b)
    ELSE IF op = "*" THEN encodedProduct(a, b)
    ELSE encodedDifference(a, b)

\* lines 199-200: transformed.replace(regex, replace) for one pattern
encodePattern(code, op) ==
    LET ms == matchAll(arithmeticRegex(op), code)
    IN  replace(code, ms,
                [k \in 1..Len(ms) |->
                    encoded(op, SubSeq(code, ms[k][1] + 1, ms[k][2]),
                            SubSeq(code, ms[k][5] + 1, ms[k][6]))])

\* lines 190-204
encodeArithmetic(code) == encodePattern(encodePattern(encodePattern(code, "+"), "*"), "-")
----------------------------------------------------------------------------
(* The techniques applied to a text, and a program flattenControlFlow      *)
(* emitted run by the engine that executes it                              *)

TechniqueSources ==
    { \* the empty text
      << >>,
      \* two statements
      <<"a", "(", ")", ";", "\n", "b", "(", ")", ";">>,
      \* a blank line and an indented line
      <<"a", "(", ")", ";", "\n", "\n", " ", " ", "b", "(", ")", ";">>,
      \* eleven lines
      <<"a", "\n", "b", "\n", "c", "\n", "d", "\n", "e", "\n", "f", "\n",
          "g", "\n", "h", "\n", "i", "\n", "j", "\n", "k">>,
      \* a sum, a difference and products of w and a literal
      <<"w", " ", "+", " ", "3">>,
      <<"w", " ", "-", " ", "1", "0">>,
      <<"w", " ", "*", " ", "1">>,
      <<"w", " ", "*", " ", "2">>,
      <<"w", "*", "8">>,
      \* an operand the character class [w.] does not take
      <<"a", " ", "+", " ", "1">>,
      <<"x", " ", "+", " ", "5">>,
      \* a product by a literal that is not a power of two
      <<"w", " ", "*", " ", "3">>,
      \* two operations on two lines
      <<"x", " ", "=", " ", "w", " ", "*", " ", "4", ";", "\n", "y", " ",
          "=", " ", "w", " ", "-", " ", "0", ";">> }

TechniquesInit ==
    /\ source \in TechniqueSources
    /\ passes = << >>
    /\ pc = "passes"
    /\ config = BasicConfig
    /\ enigma = NoEnigma
    /\ calls = 0
    /\ last = NoResult
    /\ pairsStr = << >>
    /\ plugboard = NoResult
    /\ text = << >>
    /\ obfuscate = FALSE
    /\ idx = 0
    /\ transformed = << >>
    /\ log = << >>
    /\ codeAnalyzer = [none |-> TRUE]
    /\ files = << >>
    /\ cursor = 0
    /\ console = << >>
    /\ workspaceFolders = FALSE
    /\ analysis = [none |-> TRUE]
    /\ steps = << >>
    /\ NoDispatch
    /\ NoPanel

InsertOpaquePredicates ==
    /\ pc = "passes"
    /\ applied("insertOpaquePredicates") = {}
    /\ \E d \in Draws(split(content, "\n"), TRUE) :
          passes' = Append(passes, [pass |-> "insertOpaquePredicates", draw |-> d,
                                    out |-> insertOpaquePredicates(content, d)])
    /\ UNCHANGED <<source, codecVars, batchVars, dispatchVars, panelVars, taskVars>>

EncodeArithmetic ==
    /\ pc = "passes"
    /\ applied("encodeArithmetic") = {}
    /\ passes' = Append(passes, [pass |-> "encodeArithmetic", draw |-> << >>,
                                 out |-> encodeArithmetic(content)])
    /\ UNCHANGED <<source, codecVars, batchVars, dispatchVars, panelVars, taskVars>>

FlattenControlFlow ==
    /\ pc = "passes"
    /\ passes' = Append(passes, [pass |-> "flattenControlFlow", draw |-> << >>,
                                 out |-> flattenControlFlow(content)])
    /\ pc' = "emitted"
    /\ UNCHANGED <<source, pairsStr, plugboard, config, enigma, calls, last, text,
                   obfuscate, idx, transformed, log, batchVars, dispatchVars,
                   panelVars, taskVars>>

\* the lines of the emitted program
program == split(content, "\n")

\* line 171: `while (state < ${state}) {`
whileRegex ==
    << lit(<<"w", "h", "i", "l", "e", " ", "(", "s", "t", "a", "t", "e",
               " ", "<", " ">>), rep(Digits, FALSE, 1, TRUE, TRUE), lit(<<
                                                                            ")",
                                                                            " ",
                                                                            "{">>) >>

\* line 165: `case ${state}: // ...`, behind the four spaces of the join
caseRegex ==
    << lit(<<" ", " ", " ", " ", "c", "a", "s", "e", " ">>), rep(Digits, FALSE, 1, TRUE, TRUE), lit(<<":">>) >>

\* line 167: `state = ${state + 1}; break;`, behind the four spaces of the join
assignRegex ==
    << lit(<<" ", " ", " ", " ", "s", "t", "a", "t", "e", " ", "=", " ">>), rep(Digits, FALSE, 1, TRUE, TRUE), lit(<<";",
                                                                         " ",
                                                                         "b",
                                                                         "r",
                                                                         "e",
                                                                         "a",
                                                                         "k",
                                                                         ";">>) >>

\* the number a line of the program holds where the expression has its digits,
\* -1 when the line is not of that form
numberIn(re, line) ==
    LET m == matchAt(re, line, 0)
    IN  IF m = << >> THEN -1 ELSE parseInt(SubSeq(line, m[2] + 1, m[3]))

\* the lines of p that are case labels, in order
caseLines(p) == SelectSeq([j \in 1..Len(p) |-> j], LAMBDA j : numberIn(caseRegex, p[j]) >= 0)

\* the case at line j of p: its label, the statements up to the next
\* `state = n; break;`, and n
caseAt(p, j, m) ==
    [label |-> numberIn(caseRegex, p[j]), body |-> SubSeq(p, j + 1, m - 1),
     next |-> numberIn(assignRegex, p[m])]

casesOf(p, heads) ==
    [c \in 1..Len(heads) |->
        caseAt(p, heads[c],
               least({k \in (heads[c] + 1)..Len(p) : numberIn(assignRegex, p[k]) >= 0}))]
    \o << >>

\* the program as its engine reads it: the declaration, the bound of the
\* guard and the cases of the switch
parse(p) == [first |-> p[1], bound |-> numberIn(whileRegex, p[2]), cases |-> casesOf(p, caseLines(p))]

Parse ==
    /\ pc = "emitted"
    /\ \E p \in {program} : script' = parse(p)
    /\ pc' = "parsed"
    /\ UNCHANGED <<pairsStr, plugboard, config, enigma, calls, last, text, obfuscate,
                   idx, transformed, log, passVars, batchVars, state, visited,
                   panelVars, taskVars>>

\* `let state = 0;`
RunStart ==
    /\ pc = "parsed"
    /\ script.first = <<"l", "e", "t", " ", "s", "t", "a", "t", "e", " ",
                          "=", " ", "0", ";">>
    /\ state' = 0
    /\ visited' = << >>
    /\ pc' = "while"
    /\ UNCHANGED <<pairsStr, plugboard, config, enigma, calls, last, text, obfuscate,
                   idx, transformed, log, passVars, batchVars, script, panelVars, taskVars>>

\* one turn of the loop: the guard holds, the switch enters the first case
\* whose label equals state, its statements run, and its `state = n;
\* break;` assigns state and leaves the switch
DispatchStep ==
    /\ pc = "while"
    /\ state < script.bound
    /\ \E c \in 1..Len(script.cases) :
          /\ script.cases[c].label = state
          /\ \A b \in 1..(c - 1) : script.cases[b].label # state
          /\ visited' = Append(visited, [label |-> state, body |-> script.cases[c].body])
          /\ state' = script.cases[c].next
    /\ UNCHANGED <<pc, pairsStr, plugboard, config, enigma, calls, last, text, obfuscate,
                   idx, transformed, log, passVars, batchVars, script, panelVars, taskVars>>

\* the guard fails and the loop is left
LoopExit ==
    /\ pc = "while"
    /\ state >= script.bound
    /\ pc' = "exited"
    /\ UNCHANGED <<pairsStr, plugboard, config, enigma, calls, last, text, obfuscate,
                   idx, transformed, log, passVars, batchVars, dispatchVars,
                   panelVars, taskVars>>

\* the steps of a parsed program
Dispatch == RunStart \/ DispatchStep \/ LoopExit

TechniquesNext ==
    \/ InsertOpaquePredicates
    \/ EncodeArithmetic
    \/ FlattenControlFlow
    \/ Parse
    \/ RunStart
    \/ DispatchStep
    \/ LoopExit

\* the engine that runs a parsed program does not stop in the middle of it
SpecTechniques == TechniquesInit /\ [][TechniquesNext]_vars /\ WF_vars(Dispatch)
----------------------------------------------------------------------------
(* C28-C30: what the three techniques emit                                 *)

\* the text pass k was handed
inputOf(k) == IF k = 1 THEN source ELSE passes[k - 1].out

fourSpaces == <<" ", " ", " ", " ">>

\* the whole of line is the expression re with the number n for its digits
holdsNumber(re, line, n) ==
    LET m == matchAt(re, line, 0)
    IN  m # << >> /\ m[4] = Len(line) /\ parseInt(SubSeq(line, m[2] + 1, m[3])) = n

\* out, as lines P, is the dispatcher for the lines L
IsDispatcherOf(P, L) ==
    /\ Len(P) = 3 * Len(L) + 5
    /\ P[1] = <<"l", "e", "t", " ", "s", "t", "a", "t", "e", " ", "=", " ",
                  "0", ";">>
    /\ holdsNumber(whileRegex, P[2], Len(L))
    /\ P[3] = <<" ", " ", "s", "w", "i", "t", "c", "h", "(", "s", "t", "a",
                  "t", "e", ")", " ", "{">>
    /\ \A i \in 0..(Len(L) - 1) :
          /\ numberIn(caseRegex, P[4 + 3 * i]) = i
          /\ P[5 + 3 * i] = fourSpaces \o L[i + 1]
          /\ holdsNumber(assignRegex, P[6 + 3 * i], i + 1)
    /\ P[3 * Len(L) + 4] = <<" ", " ", "}">>
    /\ P[3 * Len(L) + 5] = <<"}">>

\* the run so far has entered the cases 0, 1, ... in order, each once, each
\* holding its line of L, and is through when it has entered all of them
IsOrderlyRun(L) ==
    /\ state = Len(visited)
    /\ state <= Len(L)
    /\ \A r \in 1..Len(visited) :
          /\ visited[r].label = r - 1
          /\ visited[r].body = <<fourSpaces \o L[r]>>
    /\ pc = "exited" => state = Len(L)

FlattenedRight ==
    /\ \A k \in 1..Len(passes) :
          passes[k].pass = "flattenControlFlow" =>
              \A P \in {split(passes[k].out, "\n")}, L \in {split(inputOf(k), "\n")} :
                  IsDispatcherOf(P, L)
    /\ pc \in {"while", "exited"} =>
          \A L \in {split(inputOf(Len(passes)), "\n")} : IsOrderlyRun(L)

\* C28: for an input of N lines flattenControlFlow emits N cases numbered
\* 0..N-1 in input order, case i holding input line i and then
\* `state = i+1; break;`, in a loop guarded by `state < N`; the program,
\* started, enters the cases 0, 1, ..., N-1 once each in that order and
\* then leaves the loop
C28_Flatten == []FlattenedRight /\ ((pc = "parsed") ~> (pc = "exited"))

C28_Witness ==
    /\ pc = "exited"
    /\ Len(passes) = 1
    /\ Len(visited) = 11
    /\ visited[11] = [label |-> 10, body |-> <<<<" ", " ", " ", " ", "k">>>>]

\* the lines of L that a pass with the random numbers d wraps
wrapped(L, d) == {k \in 1..Len(L) : d[k] > 0 /\ trim(L[k]) # << >>}

\* out, as lines P, is L with the lines W wrapped and the others as they were
IsGuardedCopy(P, L, W) ==
    /\ Len(P) = Len(L) + 2 * Cardinality(W)
    /\ \A k \in 1..Len(L) :
          \E at \in {k + 2 * Cardinality({i \in W : i < k})} :
              IF k \in W
              THEN /\ \E g \in 1..3 : P[at] = <<"i", "f", " ", "(">> \o predicates[g] \o <<
                                                                               ")",
                                                                               " ",
                                                                               "{">>
                   /\ P[at + 1] = <<" ", " ">> \o L[k]
                   /\ P[at + 2] = <<"}", " ", "e", "l", "s", "e", " ", "{",
                                      " ", "t", "h", "r", "o", "w", " ", "n",
                                      "e", "w", " ", "E", "r", "r", "o", "r",
                                      "(", "'", "I", "m", "p", "o", "s", "s",
                                      "i", "b", "l", "e", "'", ")", ";", " ",
                                      "}">>
              ELSE P[at] = L[k]

\* largest |x| the numeric guards are evaluated at
MaxGuard == 8

\* C29: whatever the random numbers, insertOpaquePredicates wraps no blank
\* line, leaves every line it does not wrap as it was and where it was, and
\* puts a wrapped line in the true branch of one of the three guards; the
\* two numeric guards are true for every integer x of the range
C29_OpaquePredicates ==
    /\ \A k \in 1..Len(passes) :
          passes[k].pass = "insertOpaquePredicates" =>
              \A P \in {split(passes[k].out, "\n")}, L \in {split(inputOf(k), "\n")} :
                  \A W \in {wrapped(L, passes[k].draw)} :
                      /\ \A j \in W : trim(L[j]) # << >>
                      /\ IsGuardedCopy(P, L, W)
    /\ \A x \in (-MaxGuard)..MaxGuard : predicateHolds(1, x) /\ predicateHolds(2, x)

C29_Witness ==
    /\ source = <<"a", "(", ")", ";", "\n", "\n", " ", " ", "b", "(", ")",
                    ";">>
    /\ Len(passes) = 1
    /\ passes[1].pass = "insertOpaquePredicates"
    /\ passes[1].draw = <<0, 0, 2>>
    /\ split(passes[1].out, "\n")[4] = <<" ", " ", " ", " ", "b", "(", ")",
                                           ";">>

\* bit k of a << n for a 32-bit integer a in two's complement
shiftedBit(a, n, k) ==
    IF k < n % 32 THEN 0
    ELSE IF k - (n % 32) = 31 THEN (IF a < 0 THEN 1 ELSE 0)
    ELSE (a \div (2 ^ (k - (n % 32)))) % 2

RECURSIVE lowBits(_, _, _)
lowBits(a, n, k) == IF k > 30 THEN 0 ELSE shiftedBit(a, n, k) * (2 ^ k) + lowBits(a, n, k + 1)

\* a << n on 32-bit integers: bit 31 of the result is its sign
shl(a, n) ==
    IF shiftedBit(a, n, 31) = 1 THEN (lowBits(a, n, 0) - 2 ^ 30) - 2 ^ 30 ELSE lowBits(a, n, 0)

\* `(A - (K))` and `(A + (K))`: elements 1 (, 2 A, 3 the operator, 4 -, 5 the
\* digits of K, 6 ))
signedShape(op) ==
    << lit(<<"(">>), rep({"w", "."}, FALSE, 1, TRUE, TRUE), lit(<<" ", op, " ", "(">>),
       rep({"-"}, FALSE, 0, FALSE, TRUE), rep(Digits, FALSE, 1, TRUE, TRUE),
       lit(<<")", ")">>) >>

\* `((A << S) + A * M)`: elements 1 ((, 2 A, 3 <<, 4 S, 5 ) +, 6 A, 7 *, 8 M, 9 )
shiftShape ==
    << lit(<<"(", "(">>), rep({"w", "."}, FALSE, 1, TRUE, TRUE), lit(<<" ",
                                                                         "<",
                                                                         "<",
                                                                         " ">>),
       rep(Digits, FALSE, 1, TRUE, TRUE), lit(<<")", " ", "+", " ">>),
       rep({"w", "."}, FALSE, 1, TRUE, TRUE), lit(<<" ", "*", " ">>),
       rep(Digits, FALSE, 1, TRUE, TRUE), lit(<<")">>) >>

signedNumber(expr, m) ==
    (IF m[4] < m[5] THEN -1 ELSE 1) * parseInt(SubSeq(expr, m[5] + 1, m[6]))

\* the value of an emitted expression when its operand has the value a;
\* an expression of another shape has none
valueOf(expr, a) ==
    IF matchAt(signedShape("-"), expr, 0) # << >>
    THEN [value |-> a - signedNumber(expr, matchAt(signedShape("-"), expr, 0))]
    ELSE IF matchAt(signedShape("+"), expr, 0) # << >>
    THEN [value |-> a + signedNumber(expr, matchAt(signedShape("+"), expr, 0))]
    ELSE IF matchAt(shiftShape, expr, 0) # << >>
    THEN [value |-> shl(a, parseInt(SubSeq(expr, matchAt(shiftShape, expr, 0)[4] + 1,
                                           matchAt(shiftShape, expr, 0)[5])))
                    + a * parseInt(SubSeq(expr, matchAt(shiftShape, expr, 0)[8] + 1,
                                          matchAt(shiftShape, expr, 0)[9]))]
    ELSE [none |-> TRUE]

\* largest |a| of the small operands
MaxOperand == 3

Operands == (-MaxOperand)..MaxOperand

PowersOfTwo == {2 ^ e : e \in 0..30}

\* the text is one operation `w OP b` and nothing else
IsOperation(code, op) ==
    LET m == matchAt(arithmeticRegex(op), code, 0)
    IN  m # << >> /\ m[6] = Len(code) /\ SubSeq(code, 1, m[2]) = <<"w">>

literalOf(code, op) ==
    parseInt(SubSeq(code, matchAt(arithmeticRegex(op), code, 0)[5] + 1, Len(code)))

\* C30: what encodeArithmetic emits has the value of what it replaces: for
\* every integer a and literal k, `(a - (-k))` is a + k and `(a + (-k))` is
\* a - k, and for every literal b that is a power of two, 1 included,
\* `((a << log2(b)) + a * (b % 2))` is a * b
C30_ValuePreserving ==
    (Len(passes) >= 1 /\ passes[1].pass = "encodeArithmetic") =>
        \A a \in Operands :
            /\ IsOperation(source, "+") =>
                  valueOf(passes[1].out, a) = [value |-> a + literalOf(source, "+")]
            /\ IsOperation(source, "-") =>
                  valueOf(passes[1].out, a) = [value |-> a - literalOf(source, "-")]
            /\ (IsOperation(source, "*") /\ literalOf(source, "*") \in PowersOfTwo) =>
                  valueOf(passes[1].out, a) = [value |-> a * literalOf(source, "*")]

----------------------------------------------------------------------------
(* C25. processFilesUsingEnigma reads and writes only files whose          *)
(* extension is one of .py .js .ts .java .cpp .c .html .css: a file with   *)
(* any other extension is never the file being read, transformed or        *)
(* written, and stays as findFiles returned it.                            *)

\* README, Supported File Types
SupportedFileTypes ==
    {<<".", "p", "y">>, <<".", "j", "s">>, <<".", "t", "s">>, <<".", "j", "a", "v", "a">>,
     <<".", "c", "p", "p">>, <<".", "c">>, <<".", "h", "t", "m", "l">>, <<".", "c", "s", "s">>}

\* the loop is inside the try block of a file
InsideFile ==
    pc \in {"read", "analyze", "strategies", "hide", "junk", "interleave", "cipher",
            "remove", "write", "catch"}

C25_OnlyAllowListed ==
    /\ InsideFile => files[cursor + 1].ext \in SupportedFileTypes
    /\ \A k \in 1..Len(files) :
          files[k].ext \notin SupportedFileTypes => files[k] = File(files[k].ext)

\* the loop is through a workspace of a .ts file, written, and A.TS
C25_Witness ==
    /\ LoopFinished
    /\ Len(files) = 2
    /\ files[1].ext = extname(<<"s", "r", "c", "/", "a", ".", "t", "s">>)
    /\ files[1].writes = 1
    /\ files[2].ext = extname(<<"A", ".", "T", "S">>)
    /\ files[2].outcome = "untouched"
----------------------------------------------------------------------------
(* encryptConfig and decryptConfig: the wire format of an exported         *)
(* configuration. Bytes are numbers 0..255, texts are tuples of            *)
(* characters. AES-256-GCM and scrypt are ideal: a key is known by the     *)
(* passphrase and salt it was derived from, and an authentication tag fits *)
(* only what was sealed under that key.                                    *)

hexDigits == <<"0", "1", "2", "3", "4", "5", "6", "7", "8", "9", "a", "b",
                 "c", "d", "e", "f">>

\* the value of a hexadecimal digit of either case, -1 for any other character
hexValue(c) == indexOf(hexDigits, toLowerCase(c))

\* Buffer.prototype.toString('hex'), lines 712-715
toHex(bytes) ==
    [k \in 1..(2 * Len(bytes)) |->
        IF k % 2 = 1 THEN hexDigits[(bytes[(k + 1) \div 2] \div 16) + 1]
        ELSE hexDigits[(bytes[k \div 2] % 16) + 1]] \o << >>

\* whether the k-th pair of characters of str is two hexadecimal digits
isHexPair(str, k) == hexValue(str[2 * k - 1]) >= 0 /\ hexValue(str[2 * k]) >= 0

\* the number of bytes Buffer.from(str, 'hex') decodes: it stops before the
\* first pair that is not hexadecimal and drops a last single character
hexLength(str) ==
    IF \A k \in 1..(Len(str) \div 2) : isHexPair(str, k) THEN Len(str) \div 2
    ELSE (CHOOSE k \in 1..(Len(str) \div 2) :
              ~isHexPair(str, k) /\ \A j \in 1..(k - 1) : isHexPair(str, j)) - 1

\* Buffer.from(str, 'hex'), lines 721-727
fromHex(str) ==
    [k \in 1..hexLength(str) |->
        16 * hexValue(str[2 * k - 1]) + hexValue(str[2 * k])] \o << >>

\* the characters a configuration text is written in here, with their UTF-8
\* encodings: ASCII ones and one of two bytes, written "U+00E9"
utf8Table ==
    [c \in {"{", "}", "7", "U+00E9"} |->
        CASE c = "{" -> <<123>>
          [] c = "}" -> <<125>>
          [] c = "7" -> <<55>>
          [] c = "U+00E9" -> <<195, 169>>]

\* Buffer.from(data, 'utf8') as cipher.update(data, 'utf8') takes it, line 708
RECURSIVE encodeUtf8(_)

encodeUtf8(str) ==
    IF str = << >> THEN << >> ELSE utf8Table[Head(str)] \o encodeUtf8(Tail(str))

\* Buffer.prototype.toString('utf8'), line 728: a byte sequence that is no
\* encoding becomes U+FFFD
RECURSIVE decodeUtf8(_)

decodeUtf8(bytes) ==
    IF bytes = << >> THEN << >>
    ELSE IF \E c \in DOMAIN utf8Table : utf8Table[c] = <<Head(bytes)>>
    THEN <<CHOOSE c \in DOMAIN utf8Table : utf8Table[c] = <<Head(bytes)>>>>
             \o decodeUtf8(Tail(bytes))
    ELSE IF Len(bytes) >= 2 /\ \E c \in DOMAIN utf8Table : utf8Table[c] = SubSeq(bytes, 1, 2)
    THEN <<CHOOSE c \in DOMAIN utf8Table : utf8Table[c] = SubSeq(bytes, 1, 2)>>
             \o decodeUtf8(Tail(Tail(bytes)))
    ELSE <<"U+FFFD">> \o decodeUtf8(Tail(bytes))

\* a call that threw
Thrown == [throws |-> TRUE]

\* one member of the object JSON.stringify writes
member(name, value) == <<"\"">> \o name \o <<"\"", ":", "\"">> \o value \o <<"\"">>

\* line 716, JSON.stringify(result): the four members in the order of lines
\* 711-714, hexadecimal digits need no escape
stringify(result) ==
    <<"{">> \o member(<<"s", "a", "l", "t">>, result.salt) \o <<",">>
        \o member(<<"i", "v">>, result.iv) \o <<",">>
        \o member(<<"e", "n", "c", "r", "y", "p", "t", "e", "d">>, result.encrypted) \o <<",">>
        \o member(<<"a", "u", "t", "h", "T", "a", "g">>, result.authTag) \o <<"}">>

strip(s) == SelectSeq(s, LAMBDA c : ~IsSpace(c))

\* the j-th string literal of a JSON text whose quotation marks are at qs
literal(t, qs, j) == SubSeq(t, qs[2 * j - 1] + 1, qs[2 * j] - 1)

\* what stands after the j-th string literal (before the first for j = 0),
\* white space aside
between(t, qs, j) ==
    strip(SubSeq(t, (IF j = 0 THEN 0 ELSE qs[2 * j]) + 1,
                    (IF 2 * j + 1 > Len(qs) THEN Len(t) + 1 ELSE qs[2 * j + 1]) - 1))

\* the object of n \div 2 members, a later member of the same name winning
membersOf(t, qs, n) ==
    [name \in {literal(t, qs, 2 * j - 1) : j \in 1..(n \div 2)} |->
        literal(t, qs,
                2 * (CHOOSE j \in 1..(n \div 2) :
                        /\ literal(t, qs, 2 * j - 1) = name
                        /\ \A i \in (j + 1)..(n \div 2) : literal(t, qs, 2 * i - 1) # name))]

\* line 720, JSON.parse of a text that is an object whose members are strings
\* without escapes; any other text here is a syntax error
parseObject(t, qs, n) ==
    IF Len(qs) % 2 = 1 \/ n % 2 = 1 THEN Thrown
    ELSE IF n = 0
    THEN IF strip(t) = <<"{", "}">> THEN [object |-> << >>] ELSE Thrown
    ELSE IF /\ between(t, qs, 0) = <<"{">>
            /\ between(t, qs, n) = <<"}">>
            /\ \A j \in 1..(n - 1) : between(t, qs, j) = IF j % 2 = 1 THEN <<":">> ELSE <<",">>
            /\ \A j \in 1..n : \A c \in Range(literal(t, qs, j)) : c \notin {"\\", "\n"}
    THEN [object |-> membersOf(t, qs, n)]
    ELSE Thrown

JSONparse(t) == parseObject(t, separators(t, "\""), Len(separators(t, "\"")) \div 2)

\* crypto.randomBytes(16), lines 704 and 706: the values drawn here
bytes16(b) == [k \in 1..16 |-> (b + 16 * k) % 256] \o << >>

Salts == <<bytes16(171), bytes16(10)>>

Ivs == <<bytes16(3), bytes16(250)>>

\* passphrases: what crypto.randomBytes(16).toString('hex') of line 615 or
\* the input box of lines 583 and 562 gives (shortened)
Passphrases == <<<<"c", "0", "f", "f", "e", "e">>, <<"a", "1">>>>

\* message.data of line 594 and JSON.stringify(config) of line 618 (shortened)
ConfigTexts == <<<< >>, <<"7">>, <<"{", "}">>, <<"{", "U+00E9", "}">>>>

\* line 705, crypto.scryptSync(passphrase, salt, 32): an ideal derivation,
\* the key is known by what it was derived from
scryptSync(passphrase, salt) == [passphrase |-> passphrase, salt |-> salt]

\* the keystream of AES in counter mode under a key and an iv, at byte k
keystream(key, iv, k) ==
    (7 * Len(key.passphrase) + 13 * (IF key.salt = << >> THEN 0 ELSE key.salt[1])
        + 29 * (IF iv = << >> THEN 0 ELSE iv[1]) + 31 * k) % 256

\* cipher.update and decipher.update, lines 708 and 725
encryptBytes(key, iv, bytes) ==
    [k \in 1..Len(bytes) |-> (bytes[k] + keystream(key, iv, k)) % 256] \o << >>

decryptBytes(key, iv, bytes) ==
    [k \in 1..Len(bytes) |-> (bytes[k] + 256 - keystream(key, iv, k)) % 256] \o << >>

\* the number of what was sealed as these bytes under this key and iv, -1
\* when nothing was
sealNumber(key, iv, bytes) ==
    IF /\ key.passphrase \in Range(Passphrases)
       /\ key.salt \in Range(Salts)
       /\ iv \in Range(Ivs)
       /\ \E d \in Range(ConfigTexts) : encryptBytes(key, iv, encodeUtf8(d)) = bytes
    THEN ((indexOf(Passphrases, key.passphrase) * Len(Salts) + indexOf(Salts, key.salt))
             * Len(Ivs) + indexOf(Ivs, iv)) * Len(ConfigTexts)
         + indexOf(ConfigTexts,
                   CHOOSE d \in Range(ConfigTexts) : encryptBytes(key, iv, encodeUtf8(d)) = bytes)
    ELSE -1

\* line 709, cipher.getAuthTag(): sixteen bytes that tell what was sealed
getAuthTag(key, iv, bytes) ==
    [k \in 1..16 |-> (sealNumber(key, iv, bytes) * k + 11 * (k - 1)) % 256] \o << >>

\* lines 703-717; salt and iv are the random bytes of lines 704 and 706
encryptConfig(data, passphrase, salt, iv) ==
    stringify([salt |-> toHex(salt),
               iv |-> toHex(iv),
               encrypted |-> toHex(encryptBytes(scryptSync(passphrase, salt), iv,
                                                encodeUtf8(data))),
               authTag |-> toHex(getAuthTag(scryptSync(passphrase, salt), iv,
                                            encryptBytes(scryptSync(passphrase, salt), iv,
                                                         encodeUtf8(data))))])

\* the lengths decipher.setAuthTag takes for GCM when createDecipheriv was
\* given no authTagLength, line 722
TagLengths == {4, 8, 12, 13, 14, 15, 16}

\* line 726, decipher.final(): the tag handed to setAuthTag authenticates
\* these bytes under this key and iv
tagFits(key, iv, bytes, tag) ==
    /\ sealNumber(key, iv, bytes) >= 0
    /\ tag = SubSeq(getAuthTag(key, iv, bytes), 1, Len(tag))

\* lines 721-728 once the four members are read
decipher(key, iv, bytes, tag) ==
    IF iv = << >> \/ Len(tag) \notin TagLengths THEN Thrown
    ELSE IF ~tagFits(key, iv, bytes, tag) THEN Thrown
    ELSE [value |-> decodeUtf8(decryptBytes(key, iv, bytes))]

\* lines 719-729
decryptFields(fields, passphrase) ==
    IF "throws" \in DOMAIN fields THEN Thrown
    ELSE IF ~({<<"s", "a", "l", "t">>, <<"i", "v">>, <<"e", "n", "c", "r", "y", "p", "t", "e",
                                     "d">>, <<"a", "u", "t", "h", "T",
                                                    "a", "g">>} \subseteq DOMAIN fields.object)
    THEN Thrown
    ELSE decipher(scryptSync(passphrase, fromHex(fields.object[<<"s", "a",
                                                                   "l", "t">>])),
                  fromHex(fields.object[<<"i", "v">>]),
                  fromHex(fields.object[<<"e", "n", "c", "r", "y", "p",
                                            "t", "e", "d">>]),
                  fromHex(fields.object[<<"a", "u", "t", "h", "T", "a",
                                            "g">>]))

decryptConfig(encryptedData, passphrase) == decryptFields(JSONparse(encryptedData), passphrase)

----------------------------------------------------------------------------
(* An exported configuration on its way to an import: encryptConfig writes *)
(* the file, somebody may rewrite it, decryptConfig reads it.              *)

\* no Enigma object is made and no text is under way
NoEngine ==
    /\ config = BasicConfig
    /\ enigma = NoEnigma
    /\ calls = 0
    /\ last = NoResult
    /\ pairsStr = << >>
    /\ plugboard = NoResult
    /\ text = << >>
    /\ obfuscate = FALSE
    /\ idx = 0
    /\ transformed = << >>
    /\ log = << >>

WireInit ==
    /\ handler \in [data : Range(ConfigTexts), passphrase : Range(Passphrases),
                    salt : Range(Salts), iv : Range(Ivs),
                    rewritten : {"no"}, tried : {<< >>}, result : {[none |-> TRUE]}]
    /\ disk = [none |-> TRUE]
    /\ pc = "export"
    /\ secrets = [none |-> TRUE]
    /\ posted = << >>
    /\ webview = [none |-> TRUE]
    /\ tasks = << >>
    /\ heap = << >>
    /\ running = 0
    /\ workspace = << >>
    /\ NoPassNoBatch
    /\ NoDispatch
    /\ NoEngine

\* lines 594-595 and 618-627: the file is what encryptConfig returned
EncryptConfig ==
    /\ pc = "export"
    /\ disk' = encryptConfig(handler.data, handler.passphrase, handler.salt, handler.iv)
    /\ pc' = "file"
    /\ UNCHANGED <<handler, secrets, posted, webview, taskVars, config, obfuscate, engineVars,
                   passVars, batchVars, dispatchVars>>

\* the four members of a file encryptConfig wrote
membersRead(t) ==
    [salt |-> JSONparse(t).object[<<"s", "a", "l", "t">>],
     iv |-> JSONparse(t).object[<<"i", "v">>],
     encrypted |-> JSONparse(t).object[<<"e", "n", "c", "r", "y", "p", "t",
                                           "e", "d">>],
     authTag |-> JSONparse(t).object[<<"a", "u", "t", "h", "T", "a", "g">>]]

\* the hexadecimal text with its first digit changed, or with one byte more
\* when it is empty
otherDigits(hex) ==
    IF hex = << >> THEN <<"0", "0">>
    ELSE [hex EXCEPT ![1] = IF @ = "0" THEN "1" ELSE "0"]

upperCase(str) == [k \in 1..Len(str) |-> toUpperCase(str[k])] \o << >>

\* white space put after every colon of the text
spaced(t) == join(split(t, ":"), <<":", " ">>)

Rewritings ==
    {"salt changed", "iv changed", "encrypted changed", "authTag changed",
     "authTag of 3 bytes", "file cut", "authTag of 4 bytes", "upper case",
     "digits appended", "white space"}

\* the file as somebody rewrote it
rewritten(t, how) ==
    CASE how = "salt changed" ->
            stringify([membersRead(t) EXCEPT !.salt = otherDigits(@)])
      [] how = "iv changed" ->
            stringify([membersRead(t) EXCEPT !.iv = otherDigits(@)])
      [] how = "encrypted changed" ->
            stringify([membersRead(t) EXCEPT !.encrypted = otherDigits(@)])
      [] how = "authTag changed" ->
            stringify([membersRead(t) EXCEPT !.authTag = otherDigits(@)])
      [] how = "authTag of 3 bytes" ->
            stringify([membersRead(t) EXCEPT !.authTag = SubSeq(@, 1, 6)])
      [] how = "authTag of 4 bytes" ->
            stringify([membersRead(t) EXCEPT !.authTag = SubSeq(@, 1, 8)])
      [] how = "upper case" ->
            stringify([membersRead(t) EXCEPT !.salt = upperCase(@), !.authTag = upperCase(@)])
      [] how = "digits appended" ->
            stringify([membersRead(t) EXCEPT !.authTag = @ \o <<"x", "y">>])
      [] how = "white space" -> spaced(t)
      [] how = "file cut" -> SubSeq(t, 1, Len(t) - 1)

Rewrite ==
    /\ pc = "file"
    /\ handler.rewritten = "no"
    /\ \E how \in Rewritings :
          /\ disk' = rewritten(disk, how)
          /\ handler' = [handler EXCEPT !.rewritten = how]
    /\ UNCHANGED <<pc, secrets, posted, webview, taskVars, config, obfuscate, engineVars,
                   passVars, batchVars, dispatchVars>>

\* lines 552 and 568: decryptConfig on the text of the file
DecryptConfig ==
    /\ pc = "file"
    /\ \E passphrase \in Range(Passphrases) :
          handler' = [handler EXCEPT !.tried = passphrase,
                                     !.result = decryptConfig(disk, passphrase)]
    /\ pc' = "read"
    /\ UNCHANGED <<disk, secrets, posted, webview, taskVars, config, obfuscate, engineVars,
                   passVars, batchVars, dispatchVars>>

WireNext == EncryptConfig \/ Rewrite \/ DecryptConfig

SpecWire == WireInit /\ [][WireNext]_vars

----------------------------------------------------------------------------
(* C23. Export and import round-trip exactly: decryptConfig of what        *)
(* encryptConfig(d, p) wrote, with p, is d; with any other passphrase, or  *)
(* on a file that was modified, decryptConfig throws and returns no data.  *)

C23_RoundTrip ==
    pc = "read" =>
        IF handler.rewritten = "no" /\ handler.tried = handler.passphrase
        THEN handler.result = [value |-> handler.data]
        ELSE handler.result = Thrown

----------------------------------------------------------------------------
(* The panel: the autoObfuscate handler (lines 606-644) around a call of   *)
(* processFilesUsingEnigma, and the script of the webview that receives    *)
(* what the handler posts. A handler is followed from one await to the     *)
(* next.                                                                   *)

\* most clicks on the auto-obfuscation button
MaxRuns == 2

\* line 618, JSON.stringify(config), shortened to a text that tells the
\* configurations apart
configText(cfg) == IF cfg = BasicConfig THEN <<"{", "}">> ELSE <<"{", "U+00E9", "}">>

Idle == [command |-> "none", pc |-> "idle", handled |-> 0]

\* the webview as its script starts, lines 890-892
Loaded ==
    [sent |-> << >>, received |-> 0, loadingOverlay |-> "none",
     passphrasePopupShown |-> FALSE, passphrasePopup |-> "none",
     passphraseText |-> << >>, status |-> "", shown |-> << >>]

\* the panel is open, the extension has made no call yet
PanelOpen ==
    /\ handler = Idle
    /\ posted = << >>
    /\ secrets = [none |-> TRUE]
    /\ disk = [none |-> TRUE]
    /\ codeAnalyzer = Undefined
    /\ pc = "waiting"
    /\ cursor = 0
    /\ console = << >>
    /\ analysis = [none |-> TRUE]
    /\ steps = << >>
    /\ source = << >>
    /\ passes = << >>
    /\ tasks = << >>
    /\ heap = << >>
    /\ running = 0
    /\ workspace = << >>
    /\ NoDispatch
    /\ NoEngine

\* one click on the button has been sent, over any workspace
AutoInit ==
    /\ PanelOpen
    /\ webview = [Loaded EXCEPT !.sent = <<"autoObfuscate">>]
    /\ files \in Workspaces
    /\ workspaceFolders \in BOOLEAN

\* the webview with its user, over an empty workspace
PanelInit ==
    /\ PanelOpen
    /\ webview = Loaded
    /\ files = << >>
    /\ workspaceFolders = TRUE

spinner(show) == [command |-> "spinner", show |-> show]

status(message) == [command |-> "status", text |-> message]

\* lines 637-642: catch and finally
failed == <<status("Error in auto configuration."), spinner(FALSE)>>

\* line 941: a click on the button, which nothing covers
ClickAutoObfuscate ==
    /\ Len(webview.sent) < MaxRuns
    /\ webview.loadingOverlay = "none"
    /\ webview.passphrasePopup = "none"
    /\ webview' = [webview EXCEPT !.sent = Append(@, "autoObfuscate")]
    /\ UNCHANGED <<handler, posted, secrets, disk, pc, config, obfuscate, engineVars,
                   passVars, batchVars, dispatchVars, taskVars>>

\* lines 606-611: the message is handled up to the await of generateEnigmaConfig
AutoObfuscate ==
    /\ handler.pc \in {"idle", "done"}
    /\ handler.handled < Len(webview.sent)
    /\ webview.sent[handler.handled + 1] = "autoObfuscate"
    /\ handler' = [command |-> "autoObfuscate", pc |-> "config",
                   handled |-> handler.handled + 1,
                   passphrase |-> << >>, encryptedConfig |-> << >>,
                   stores |-> 0, configWrites |-> 0, outcome |-> "running"]
    /\ posted' = Append(posted, spinner(TRUE))
    /\ pc' = "waiting"
    /\ UNCHANGED <<webview, secrets, disk, config, obfuscate, engineVars,
                   passVars, batchVars, dispatchVars, taskVars>>

\* lines 611-613: generateEnigmaConfig returns what Gemini wrote
ConfigGenerated ==
    /\ handler.pc = "config"
    /\ config' \in {BasicConfig, UnknownRotorConfig}
    /\ handler' = [handler EXCEPT !.pc = "batch"]
    /\ UNCHANGED <<webview, posted, secrets, disk, pc, obfuscate, engineVars,
                   passVars, batchVars, dispatchVars, taskVars>>

\* line 611 rejects (no answer, or JSON.parse of line 421 throws), 637-642
GenerateConfigRejects ==
    /\ handler.pc = "config"
    /\ handler' = [handler EXCEPT !.pc = "done", !.outcome = "generateEnigmaConfig rejected"]
    /\ posted' = posted \o failed
    /\ UNCHANGED <<webview, secrets, disk, pc, config, obfuscate, engineVars,
                   passVars, batchVars, dispatchVars, taskVars>>

\* line 613: processFilesUsingEnigma(config, true)
AutoCall == handler.pc = "batch" /\ pc = "waiting" /\ Call(TRUE)

\* the steps of the call outside the body of its loop
CallSteps ==
    \/ LazyInit
    \/ InitializeReturns
    \/ BuildModelThrows
    \/ LoadWeightsThrows
    \/ WorkspaceCheck
    \/ LoopHead

\* the steps of the body of the loop, obfuscate being true
FileSteps ==
    \/ ReadFile
    \/ ReadFileThrows
    \/ AnalyzeCode
    \/ ApplyStrategies
    \/ HideVariables
    \/ InjectJunk
    \/ Interleave
    \/ Cipher
    \/ WriteFile
    \/ WriteFileThrows
    \/ Catch

\* the handler going on to line 615 while the loop of the call is under way
BatchReturnedInLoop ==
    /\ handler.pc = "batch"
    /\ pc \in {"returned", "loop"}
    /\ \E passphrase \in Range(Passphrases) :
          handler' = [handler EXCEPT !.pc = "store", !.passphrase = passphrase]
    /\ UNCHANGED <<webview, posted, secrets, disk, pc, config, obfuscate, engineVars,
                   passVars, batchVars, dispatchVars, taskVars>>

\* lines 613-616: the call returned; a passphrase is drawn and secrets.store
\* is called
BatchReturned ==
    /\ handler.pc = "batch"
    /\ pc = "returned"
    /\ \E passphrase \in Range(Passphrases) :
          handler' = [handler EXCEPT !.pc = "store", !.passphrase = passphrase]
    /\ UNCHANGED <<webview, posted, secrets, disk, pc, config, obfuscate, engineVars,
                   passVars, batchVars, dispatchVars, taskVars>>

\* line 613 rejects, 637-642
BatchRejected ==
    /\ handler.pc = "batch"
    /\ pc = "rejected"
    /\ handler' = [handler EXCEPT !.pc = "done", !.outcome = "processFilesUsingEnigma rejected"]
    /\ posted' = posted \o failed
    /\ UNCHANGED <<webview, secrets, disk, pc, config, obfuscate, engineVars,
                   passVars, batchVars, dispatchVars, taskVars>>

\* lines 616-627: the secret is stored; the configuration is encrypted and,
\* with a workspace folder, writeFile is called
SecretStored ==
    /\ handler.pc = "store"
    /\ secrets' = [value |-> handler.passphrase]
    /\ IF workspaceFolders
       THEN /\ \E k \in 1..Len(Salts) :
                  handler' = [handler EXCEPT
                                 !.pc = "write",
                                 !.stores = @ + 1,
                                 !.encryptedConfig =
                                     encryptConfig(configText(config), handler.passphrase,
                                                   Salts[k], Ivs[k])]
            /\ posted' = posted
       ELSE /\ handler' = [handler EXCEPT !.pc = "done", !.stores = @ + 1,
                                          !.outcome = "no workspace folder"]
            /\ posted' = posted \o <<spinner(FALSE), spinner(FALSE)>>
    /\ UNCHANGED <<webview, disk, pc, config, obfuscate, engineVars,
                   passVars, batchVars, dispatchVars, taskVars>>

\* line 616 rejects, 637-642
SecretStoreRejects ==
    /\ handler.pc = "store"
    /\ handler' = [handler EXCEPT !.pc = "done", !.outcome = "secrets.store rejected"]
    /\ posted' = posted \o failed
    /\ UNCHANGED <<webview, secrets, disk, pc, config, obfuscate, engineVars,
                   passVars, batchVars, dispatchVars, taskVars>>

\* lines 627-642: the file is written; the passphrase and the status are posted
ConfigWritten ==
    /\ handler.pc = "write"
    /\ disk' = [text |-> handler.encryptedConfig]
    /\ handler' = [handler EXCEPT !.pc = "done", !.configWrites = @ + 1,
                                  !.outcome = "complete"]
    /\ posted' = posted \o
          <<[command |-> "passphraseGenerated", passphrase |-> handler.passphrase],
            status("Auto config complete. Files obfuscated & config secret saved."),
            spinner(FALSE)>>
    /\ UNCHANGED <<webview, secrets, pc, config, obfuscate, engineVars,
                   passVars, batchVars, dispatchVars, taskVars>>

\* line 627 rejects, 637-642
WriteConfigRejects ==
    /\ handler.pc = "write"
    /\ handler' = [handler EXCEPT !.pc = "done", !.outcome = "writeFile rejected"]
    /\ posted' = posted \o failed
    /\ UNCHANGED <<webview, secrets, disk, pc, config, obfuscate, engineVars,
                   passVars, batchVars, dispatchVars, taskVars>>

\* lines 900-907
showPassphrasePopup(w, passphrase) ==
    IF w.passphrasePopupShown THEN w
    ELSE [w EXCEPT !.passphrasePopupShown = TRUE,
                   !.passphraseText = passphrase,
                   !.passphrasePopup = "flex",
                   !.shown = Append(@, passphrase)]

\* lines 908-911
hidePassphrasePopup(w) ==
    [w EXCEPT !.passphrasePopup = "none", !.passphrasePopupShown = FALSE]

\* lines 944-975: the listener of the webview on one message
onMessage(w, message) ==
    CASE message.command = "spinner" ->
            [w EXCEPT !.loadingOverlay = IF message.show THEN "flex" ELSE "none"]
      [] message.command = "passphraseGenerated" ->
            showPassphrasePopup(w, message.passphrase)
      [] message.command = "status" -> [w EXCEPT !.status = message.text]
      [] OTHER -> w

\* the webview receives the next message posted to it
Receive ==
    /\ webview.received < Len(posted)
    /\ webview' = [onMessage(webview, posted[webview.received + 1])
                      EXCEPT !.received = webview.received + 1]
    /\ UNCHANGED <<handler, posted, secrets, disk, pc, config, obfuscate, engineVars,
                   passVars, batchVars, dispatchVars, taskVars>>

\* lines 926-928: a click on Close
ClosePassphrasePopup ==
    /\ webview.passphrasePopup = "flex"
    /\ webview' = hidePassphrasePopup(webview)
    /\ UNCHANGED <<handler, posted, secrets, disk, pc, config, obfuscate, engineVars,
                   passVars, batchVars, dispatchVars, taskVars>>

\* the steps of the handler itself
HandlerSteps ==
    \/ AutoObfuscate
    \/ ConfigGenerated
    \/ GenerateConfigRejects
    \/ AutoCall
    \/ BatchReturned
    \/ BatchRejected
    \/ SecretStored
    \/ SecretStoreRejects
    \/ ConfigWritten
    \/ WriteConfigRejects

AutoNext == HandlerSteps \/ CallSteps \/ FileSteps

SpecAuto == AutoInit /\ [][AutoNext]_vars

\* the workspace is empty: no step of the loop body is ever enabled
PanelNext ==
    \/ ClickAutoObfuscate
    \/ HandlerSteps
    \/ CallSteps
    \/ Receive
    \/ ClosePassphrasePopup

SpecPanel == PanelInit /\ [][PanelNext]_vars

----------------------------------------------------------------------------
(* C22. In one autoObfuscate run the secret store is written at most once, *)
(* and exactly once when the configuration was generated, the call         *)
(* returned and secrets.store did not reject; the passphrase is drawn, the *)
(* secret stored and the configuration file written only after the loop    *)
(* over the files has finished, never between two files.                   *)

\* the run has drawn its passphrase, stored it or written the file
BatchLevelDone ==
    handler.passphrase # << >> \/ handler.stores > 0 \/ handler.configWrites > 0

\* the call of the run has gone through all its files and returned
LoopOver == pc = "returned" /\ (workspaceFolders => cursor = Len(files))

----------------------------------------------------------------------------
(* C26. Every auto-obfuscation run that completes shows its own passphrase *)
(* in the popup exactly once: after any runs and any opening and closing   *)
(* of the popup, the passphrases the popup has displayed are those of the  *)
(* passphraseGenerated messages received, one display each, and the text   *)
(* of the popup is the passphrase generated last.                          *)

\* the passphrases of the passphraseGenerated messages the webview received
received ==
    [k \in 1..Len(SelectSeq(SubSeq(posted, 1, webview.received),
                            LAMBDA m : m.command = "passphraseGenerated")) |->
        SelectSeq(SubSeq(posted, 1, webview.received),
                  LAMBDA m : m.command = "passphraseGenerated")[k].passphrase]

C26_EachShownOnce ==
    /\ webview.shown = received
    /\ received # << >> => webview.passphraseText = received[Len(received)]

----------------------------------------------------------------------------
(* The importConfig handler, lines 539-580, from one await to the next.    *)

\* files the user may choose: what encryptConfig wrote, and such a file
\* with its tag changed or its text cut
ChosenFiles ==
    {encryptConfig(d, p, Salts[1], Ivs[1]) : d \in Range(ConfigTexts), p \in Range(Passphrases)}
        \cup {rewritten(encryptConfig(<<"{", "}">>, Passphrases[1], Salts[1], Ivs[1]), how) :
                 how \in {"authTag changed", "file cut"}}

\* line 927 has posted importConfig; the secret store is empty or holds the
\* passphrase of an earlier auto-obfuscation
ImportInit ==
    /\ handler = Idle
    /\ webview = [Loaded EXCEPT !.sent = <<"importConfig">>]
    /\ posted = << >>
    /\ secrets \in {[none |-> TRUE]} \cup {[value |-> p] : p \in Range(Passphrases)}
    /\ disk \in {[text |-> t] : t \in ChosenFiles}
    /\ files = << >>
    /\ workspaceFolders = TRUE
    /\ codeAnalyzer = Undefined
    /\ pc = "waiting"
    /\ cursor = 0
    /\ console = << >>
    /\ analysis = [none |-> TRUE]
    /\ steps = << >>
    /\ source = << >>
    /\ passes = << >>
    /\ tasks = << >>
    /\ heap = << >>
    /\ running = 0
    /\ workspace = << >>
    /\ NoDispatch
    /\ NoEngine

importVars == <<webview, secrets, disk, pc, config, obfuscate, engineVars,
                passVars, batchVars, dispatchVars, taskVars>>

\* lines 539-544: the message is handled up to the await of showOpenDialog
ImportConfig ==
    /\ handler.pc \in {"idle", "done"}
    /\ handler.handled < Len(webview.sent)
    /\ webview.sent[handler.handled + 1] = "importConfig"
    /\ handler' = [command |-> "importConfig", pc |-> "dialog",
                   handled |-> handler.handled + 1,
                   encryptedContent |-> << >>, storedPassphrase |-> [none |-> TRUE],
                   prompted |-> FALSE, passphrase |-> [none |-> TRUE]]
    /\ UNCHANGED <<posted, importVars>>

\* lines 545-547: a file is chosen, readFile is called
FileChosen ==
    /\ handler.pc = "dialog"
    /\ handler' = [handler EXCEPT !.pc = "readFile"]
    /\ UNCHANGED <<posted, importVars>>

\* line 545: the dialog is dismissed
DialogDismissed ==
    /\ handler.pc = "dialog"
    /\ handler' = [handler EXCEPT !.pc = "done"]
    /\ UNCHANGED <<posted, importVars>>

\* lines 547-549: the text of the file is read, secrets.get is called
FileRead ==
    /\ handler.pc = "readFile"
    /\ handler' = [handler EXCEPT !.pc = "secrets", !.encryptedContent = disk.text]
    /\ UNCHANGED <<posted, importVars>>

\* line 547 or 549 rejects, lines 573-575
ReadRejects ==
    /\ handler.pc \in {"readFile", "secrets"}
    /\ handler' = [handler EXCEPT !.pc = "done"]
    /\ posted' = Append(posted, status("Error reading configuration file."))
    /\ UNCHANGED importVars

imported(data) == [command |-> "importConfigResult", data |-> data]

\* lines 549-566 without the test of line 550: the input box in any case
SecretsGotUnused ==
    /\ handler.pc = "secrets"
    /\ handler' = [handler EXCEPT !.pc = "prompt", !.storedPassphrase = secrets,
                                  !.prompted = TRUE]
    /\ posted' = posted
    /\ UNCHANGED importVars

\* lines 549-566: the stored passphrase, if there is one, is tried; when
\* there is none or decryptConfig throws, showInputBox is called
SecretsGot ==
    /\ handler.pc = "secrets"
    /\ IF "value" \in DOMAIN secrets
          /\ "value" \in DOMAIN decryptConfig(handler.encryptedContent, secrets.value)
       THEN /\ handler' = [handler EXCEPT !.pc = "done", !.storedPassphrase = secrets]
            /\ posted' = posted \o
                  <<imported(decryptConfig(handler.encryptedContent, secrets.value).value),
                    status("Config imported via stored passphrase.")>>
       ELSE /\ handler' = [handler EXCEPT !.pc = "prompt", !.storedPassphrase = secrets,
                                          !.prompted = TRUE]
            /\ posted' = posted
    /\ UNCHANGED importVars

\* what showInputBox resolves to: a passphrase, an empty text, or undefined
\* when the box is dismissed
Inputs == {[value |-> p] : p \in Range(Passphrases) \cup {<< >>}} \cup {[none |-> TRUE]}

\* lines 562-572: the input box resolves
PassphraseEntered ==
    /\ handler.pc = "prompt"
    /\ \E input \in Inputs :
          /\ handler' = [handler EXCEPT !.pc = "done", !.passphrase = input]
          /\ posted' = Append(posted,
                IF "none" \in DOMAIN input \/ input.value = << >>
                THEN status("Import cancelled.")
                ELSE IF "value" \in DOMAIN decryptConfig(handler.encryptedContent, input.value)
                THEN imported(decryptConfig(handler.encryptedContent, input.value).value)
                ELSE status("Invalid passphrase or corrupted configuration file."))
    /\ UNCHANGED importVars

ImportNext ==
    \/ ImportConfig
    \/ FileChosen
    \/ DialogDismissed
    \/ FileRead
    \/ ReadRejects
    \/ SecretsGot
    \/ PassphraseEntered

SpecImport == ImportInit /\ [][ImportNext]_vars

----------------------------------------------------------------------------
(* C24. On importConfig the stored passphrase, if there is one, is tried   *)
(* first; the user is prompted only when none is stored or it does not     *)
(* decrypt the file; importConfigResult is posted only with what a         *)
(* decryption returned; and when the passphrase entered does not decrypt   *)
(* the file, the status 'Invalid passphrase or corrupted configuration     *)
(* file.' is all that is posted.                                           *)

\* the stored passphrase decrypts the chosen file
StoredOpens ==
    /\ "value" \in DOMAIN secrets
    /\ "value" \in DOMAIN decryptConfig(disk.text, secrets.value)

\* the passphrase entered in the input box decrypts the chosen file
EnteredOpens ==
    /\ "value" \in DOMAIN handler.passphrase
    /\ "value" \in DOMAIN decryptConfig(disk.text, handler.passphrase.value)

\* the handler got as far as the secret store
SecretsAsked == handler.prompted \/ (handler.pc = "done" /\ "value" \in DOMAIN handler.storedPassphrase)

C24_ImportOrder ==
    handler.command = "importConfig" =>
        /\ handler.prompted => ~StoredOpens
        /\ (SecretsAsked /\ StoredOpens) =>
              posted = <<imported(decryptConfig(disk.text, secrets.value).value),
                         status("Config imported via stored passphrase.")>>
        /\ \A k \in 1..Len(posted) :
              posted[k].command = "importConfigResult" =>
                  \/ StoredOpens
                        /\ posted[k].data = decryptConfig(disk.text, secrets.value).value
                  \/ EnteredOpens
                        /\ posted[k].data = decryptConfig(disk.text, handler.passphrase.value).value
        /\ (handler.pc = "done" /\ handler.prompted /\ "value" \in DOMAIN handler.passphrase
              /\ handler.passphrase.value # << >> /\ ~EnteredOpens) =>
              posted = <<status("Invalid passphrase or corrupted configuration file.")>>

\* a passphrase is stored and does not decrypt the file, the user was
\* prompted, and what was entered did: the configuration is delivered
C24_Witness ==
    /\ handler.command = "importConfig"
    /\ handler.pc = "done"
    /\ "value" \in DOMAIN secrets
    /\ ~StoredOpens
    /\ handler.prompted
    /\ EnteredOpens
    /\ posted = <<imported(<<"{", "U+00E9", "}">>)>>

----------------------------------------------------------------------------
(* Calls of processFilesUsingEnigma running beside one another.  Every     *)
(* message of the webview starts the async listener of line 943; a call    *)
(* gives up the thread at its awaits (lines 298, 305, 314) and nowhere     *)
(* else, so the steps of two calls interleave at those points only.        *)
(* `running` is the call that holds the thread, 0 between two turns.       *)

\* contents of the files of the workspace, all of a type of line 304
TaskTexts == {<<"A">>, <<"e", "7">>}

\* the configurations the messages carry
TaskConfigs ==
    {BasicConfig,
     Config(<<"I", "I", "-", "I", "-", "I", "I", "I">>, <<"A", "B", "C">>, <<"A", "A", "B">>,
            << >>, <<"B">>)}

\* a call before its first step; two calls are made, one for each of two
\* messages of the webview.  guard is the way the call took at line 296 and
\* afterFailure whether an initialize had rejected when it started
Task(cfg, flag) ==
    [config |-> cfg, obfuscate |-> flag, pc |-> "posted", cursor |-> 0, content |-> << >>,
     text |-> << >>, engine |-> 0, idx |-> 0, transformed |-> << >>, done |-> << >>,
     guard |-> "none", afterFailure |-> FALSE]

TasksInit ==
    /\ tasks \in {<<Task(BasicConfig, first), Task(cfg, second)>> :
                     cfg \in TaskConfigs, first \in BOOLEAN, second \in BOOLEAN}
    /\ workspace \in {<<first, second>> : first \in TaskTexts, second \in TaskTexts}
    /\ heap = << >>
    /\ running = 0
    /\ codeAnalyzer = Undefined
    /\ secrets = [none |-> TRUE]
    /\ disk = [none |-> TRUE]
    /\ posted = << >>
    /\ webview = [none |-> TRUE]
    /\ handler = [none |-> TRUE]
    /\ files = << >>
    /\ workspaceFolders = TRUE
    /\ pc = "waiting"
    /\ cursor = 0
    /\ console = << >>
    /\ analysis = [none |-> TRUE]
    /\ steps = << >>
    /\ source = << >>
    /\ passes = << >>
    /\ NoDispatch
    /\ NoEngine

tasksRest == <<pc, config, obfuscate, engineVars, passVars, files, cursor, console,
               workspaceFolders, analysis, steps, dispatchVars, panelVars>>

\* the initialize of a call has rejected
AnyRejected == \E u \in DOMAIN tasks : tasks[u].pc = "rejected"

\* lines 296-299 and 305: the call starts; the first one to find no
\* codeAnalyzer makes it and awaits initialize, the others await findFiles
Start(t) ==
    /\ running = 0
    /\ tasks[t].pc = "posted"
    /\ IF codeAnalyzer = Undefined
       THEN /\ codeAnalyzer' = [model |-> "null"]
            /\ tasks' = [tasks EXCEPT ![t].pc = "initialize", ![t].guard = "initialize",
                                      ![t].afterFailure = AnyRejected]
       ELSE /\ codeAnalyzer' = codeAnalyzer
            /\ tasks' = [tasks EXCEPT ![t].pc = "findFiles", ![t].guard = "skipped",
                                      ![t].afterFailure = AnyRejected]
    /\ UNCHANGED <<heap, running, workspace, tasksRest>>

\* lines 298-305: initialize returns and the call awaits findFiles
Initialized(t) ==
    /\ running = 0
    /\ tasks[t].pc = "initialize"
    /\ codeAnalyzer' = [model |-> "ready"]
    /\ tasks' = [tasks EXCEPT ![t].pc = "findFiles"]
    /\ UNCHANGED <<heap, running, workspace, tasksRest>>

\* line 298: buildModel throws and this.model stays null, or
\* loadPretrainedWeights rethrows (codeAnalyzer.ts 36-39) and this.model is
\* the built model; the call rejects
InitializeRejects(t) ==
    /\ running = 0
    /\ tasks[t].pc = "initialize"
    /\ codeAnalyzer' \in {[model |-> "null"], [model |-> "built"]}
    /\ tasks' = [tasks EXCEPT ![t].pc = "rejected"]
    /\ UNCHANGED <<heap, running, workspace, tasksRest>>

\* lines 307-314 and 322: the head of the loop for file k read from ws; a
\* call that obfuscates awaits analyzeCode, one that does not goes on
atFile(task, k, ws) ==
    IF k > Len(ws) THEN [task EXCEPT !.pc = "done", !.cursor = k]
    ELSE [task EXCEPT !.cursor = k, !.content = ws[k], !.text = ws[k],
                      !.pc = IF task.obfuscate THEN "analyzeCode" ELSE "enigmaObfuscate"]

\* the call that holds the thread once task t is at the head of the loop
holder(task, t) == IF task.pc = "enigmaObfuscate" THEN t ELSE 0

\* line 305: findFiles returns
FilesFound(t) ==
    /\ running = 0
    /\ tasks[t].pc = "findFiles"
    /\ \E next \in {atFile(tasks[t], 1, workspace)} :
          /\ tasks' = [tasks EXCEPT ![t] = next]
          /\ running' = holder(next, t)
    /\ UNCHANGED <<heap, workspace, codeAnalyzer, tasksRest>>

\* lines 315-318: the texts the passes hand to line 320, the lines they add
\* cut to one letter: the text as it was read, or with a line after it
Prepared(code) == {code, code \o <<"\n", "j">>}

\* lines 314-318: analyzeCode returns and the passes run
Analyzed(t) ==
    /\ running = 0
    /\ tasks[t].pc = "analyzeCode"
    /\ \E prepared \in Prepared(tasks[t].content) :
          tasks' = [tasks EXCEPT ![t].text = prepared, ![t].pc = "enigmaObfuscate"]
    /\ running' = t
    /\ UNCHANGED <<heap, workspace, codeAnalyzer, tasksRest>>

\* the invocation of enigmaObfuscate a call is in: the call and the number
\* of the invocation within it
invocation(t) == <<t, Len(tasks[t].done) + 1>>

\* lines 339-366: every invocation makes its engine, a local of lines
\* 339-359, with every call the engine of the first invocation
NewEngineShared(t) ==
    /\ running = t
    /\ tasks[t].pc = "enigmaObfuscate"
    /\ IF heap = << >>
       THEN heap' = <<[owner |-> invocation(t), made |-> configured(tasks[t].config),
                       enigma |-> configured(tasks[t].config), users |-> {}]>>
       ELSE heap' = heap
    /\ tasks' = [tasks EXCEPT ![t].engine = 1, ![t].idx = 0,
                              ![t].transformed = << >>, ![t].pc = "chars"]
    /\ UNCHANGED <<running, workspace, codeAnalyzer, tasksRest>>

\* lines 339-366: the invocation makes its engine, a local of lines 339-359
NewEngine(t) ==
    /\ running = t
    /\ tasks[t].pc = "enigmaObfuscate"
    /\ heap' = Append(heap, [owner |-> invocation(t), made |-> configured(tasks[t].config),
                             enigma |-> configured(tasks[t].config), users |-> {}])
    /\ tasks' = [tasks EXCEPT ![t].engine = Len(heap) + 1, ![t].idx = 0,
                              ![t].transformed = << >>, ![t].pc = "chars"]
    /\ UNCHANGED <<running, workspace, codeAnalyzer, tasksRest>>

\* lines 368-373: a letter goes through the engine of the invocation
EncipherChar(t) ==
    /\ running = t
    /\ tasks[t].pc = "chars"
    /\ tasks[t].idx < Len(tasks[t].text)
    /\ IsLetter(tasks[t].text[tasks[t].idx + 1])
    /\ \E r \in {encipher(heap[tasks[t].engine].enigma,
                          toUpperCase(tasks[t].text[tasks[t].idx + 1]))} :
          /\ heap' = [heap EXCEPT ![tasks[t].engine].enigma = r.enigma,
                                  ![tasks[t].engine].users = @ \cup {invocation(t)}]
          /\ tasks' = [tasks EXCEPT
                          ![t].transformed =
                              Append(@, restoreCase(tasks[t].text[tasks[t].idx + 1], r.letter)),
                          ![t].idx = @ + 1]
    /\ UNCHANGED <<running, workspace, codeAnalyzer, tasksRest>>

\* lines 374-376: any other character is copied
CopyChar(t) ==
    /\ running = t
    /\ tasks[t].pc = "chars"
    /\ tasks[t].idx < Len(tasks[t].text)
    /\ ~IsLetter(tasks[t].text[tasks[t].idx + 1])
    /\ tasks' = [tasks EXCEPT ![t].transformed = Append(@, tasks[t].text[tasks[t].idx + 1]),
                              ![t].idx = @ + 1]
    /\ UNCHANGED <<heap, running, workspace, codeAnalyzer, tasksRest>>

\* lines 320-325: what is written for the text enigmaObfuscate returned
written(task) ==
    IF task.obfuscate THEN task.transformed ELSE removeObfuscation(task.transformed)

\* lines 377, 320-327 and 307: enigmaObfuscate returns, the file is written
\* and the loop is at its head again
Returned(t) ==
    /\ running = t
    /\ tasks[t].pc = "chars"
    /\ tasks[t].idx = Len(tasks[t].text)
    /\ workspace' = [workspace EXCEPT ![tasks[t].cursor] = written(tasks[t])]
    /\ \E next \in {atFile([tasks[t] EXCEPT
                               !.done = Append(@, [file |-> tasks[t].cursor,
                                                   text |-> tasks[t].text,
                                                   out |-> tasks[t].transformed,
                                                   engine |-> tasks[t].engine])],
                           tasks[t].cursor + 1, workspace')} :
          /\ tasks' = [tasks EXCEPT ![t] = next]
          /\ running' = holder(next, t)
    /\ UNCHANGED <<heap, codeAnalyzer, tasksRest>>

TasksNext ==
    \E t \in DOMAIN tasks :
        \/ Start(t)
        \/ Initialized(t)
        \/ InitializeRejects(t)
        \/ FilesFound(t)
        \/ Analyzed(t)
        \/ NewEngine(t)
        \/ EncipherChar(t)
        \/ CopyChar(t)
        \/ Returned(t)

SpecTasks == TasksInit /\ [][TasksNext]_vars

----------------------------------------------------------------------------
(* C21. No engine is shared.  Every invocation of enigmaObfuscate makes    *)
(* its own engine from the configuration and goes through its text while   *)
(* it holds the thread, so that, however the calls interleave, an engine   *)
(* is stepped by the invocation that made it and by no other, and what an  *)
(* invocation returns is what it returns when it runs alone on a new       *)
(* engine, whatever was processed before it.                               *)

\* lines 369-372: the engine after a letter and the letter added
cipherLetter(char, r) == [enigma |-> r.enigma, out |-> <<restoreCase(char, r.letter)>>]

\* lines 368-376: the engine after one character and what is added
cipherChar(e, char) ==
    IF IsLetter(char) THEN cipherLetter(char, encipher(e, toUpperCase(char)))
    ELSE [enigma |-> e, out |-> <<char>>]

\* lines 367-376 for a text in two parts: part b goes on from the engine
\* part a left
cipherJoin(a, b) == [out |-> a.out \o b.out, enigma |-> b.enigma]

RECURSIVE cipherRun(_, _)
cipherThen(a, chars) == cipherJoin(a, cipherRun(a.enigma, chars))

\* lines 366-376: the engine after the text and the text returned
cipherRun(e, chars) ==
    IF chars = << >> THEN [enigma |-> e, out |-> << >>]
    ELSE IF Len(chars) = 1 THEN cipherChar(e, chars[1])
    ELSE cipherThen(cipherRun(e, SubSeq(chars, 1, Len(chars) \div 2)),
                    SubSeq(chars, (Len(chars) \div 2) + 1, Len(chars)))

\* lines 366-377: the text returned from the engine e on
cipherFrom(e, chars) == cipherRun(e, chars).out

\* lines 338-378, for a configuration whose names have wiring tables
enigmaObfuscate(chars, cfg) == cipherFrom(configured(cfg), chars)

\* the invocations that have made an engine
started == {i \in (DOMAIN tasks) \X (1..(Len(workspace) + 1)) :
               \/ i[2] <= Len(tasks[i[1]].done)
               \/ i[2] = Len(tasks[i[1]].done) + 1 /\ tasks[i[1]].pc = "chars"}

C21_NoSharedEngine ==
    /\ Len(heap) = Cardinality(started)
    /\ \A h \in DOMAIN heap :
          /\ heap[h].users \subseteq {heap[h].owner}
          /\ heap[h].made = configured(tasks[heap[h].owner[1]].config)
          /\ \A g \in DOMAIN heap : heap[g].owner = heap[h].owner => g = h
    /\ \A t \in DOMAIN tasks :
          /\ tasks[t].pc = "chars" =>
                /\ running = t
                /\ heap[tasks[t].engine].owner = invocation(t)
          /\ \A n \in DOMAIN tasks[t].done :
                /\ heap[tasks[t].done[n].engine].owner = <<t, n>>
                /\ tasks[t].done[n].out
                       = enigmaObfuscate(tasks[t].done[n].text, tasks[t].config)

\* both calls are done after their turns alternated: the second call
\* enciphered its first file between two files of the first call, both
\* enciphered the same letters with the same configuration, and the engines
\* of the first call were made before and after that of the second
C21_Witness ==
    /\ tasks[1].pc = "done" /\ tasks[2].pc = "done"
    /\ tasks[1].config = tasks[2].config
    /\ Len(tasks[1].done) = Len(workspace) /\ Len(tasks[2].done) = Len(workspace)
    /\ tasks[1].done[1].engine < tasks[2].done[1].engine
    /\ tasks[2].done[1].engine < tasks[1].done[2].engine
    /\ tasks[1].done[2].text = tasks[2].done[1].text
    /\ \E k \in DOMAIN tasks[1].done[2].text : IsLetter(tasks[1].done[2].text[k])
    /\ \A h \in DOMAIN heap : heap[h].users # {}

----------------------------------------------------------------------------
(* C31. encodeArithmetic rewrites every `NAME + k`, `NAME - k` and         *)
(* `NAME * k`, NAME being any identifier of letters, digits, underscores   *)
(* and dots and k a decimal literal (`x + 5` becomes `(x - (-5))`), and    *)
(* leaves a product by a literal that is not a power of two as it was.     *)

\* /([\w.]+)\s*OP\s*(\d+)/: the expression of lines 193-195 with the
\* operand the claim gives it
identifierRegex(op) ==
    << rep(WordChars \cup {"."}, FALSE, 1, TRUE, TRUE),
       rep(WhiteSpace, FALSE, 0, TRUE, TRUE),
       lit(<<op>>),
       rep(WhiteSpace, FALSE, 0, TRUE, TRUE),
       rep(Digits, FALSE, 1, TRUE, TRUE) >>

\* the text is one operation `NAME OP k` and nothing else
IsNamedOperation(code, op) ==
    LET m == matchAt(identifierRegex(op), code, 0)
    IN  m # << >> /\ m[6] = Len(code)

nameOf(code, op) == SubSeq(code, 1, matchAt(identifierRegex(op), code, 0)[2])

digitsOf(code, op) ==
    SubSeq(code, matchAt(identifierRegex(op), code, 0)[5] + 1, Len(code))

C31_EveryIdentifier ==
    (Len(passes) >= 1 /\ passes[1].pass = "encodeArithmetic") =>
        /\ IsNamedOperation(source, "+") =>
              passes[1].out = encodedSum(nameOf(source, "+"), digitsOf(source, "+"))
        /\ IsNamedOperation(source, "-") =>
              passes[1].out = encodedDifference(nameOf(source, "-"), digitsOf(source, "-"))
        /\ IsNamedOperation(source, "*") =>
              IF parseInt(digitsOf(source, "*")) \in PowersOfTwo
              THEN passes[1].out = encodedProduct(nameOf(source, "*"), digitsOf(source, "*"))
              ELSE passes[1].out = source

----------------------------------------------------------------------------
(* C32. For every text X that holds none of the patterns removeObfuscation *)
(* strips, and for every outcome of the random choices,                    *)
(* removeObfuscation(interleaveCode(injectJunkCode(X))) holds no `_dummy`  *)
(* function definition and none of the three dummy statements, and its     *)
(* lines that are not blank are, in order, the lines of X that are not     *)
(* blank.                                                                  *)

\* no junk function and no dummy statement of lines 255-260 is in the text
JunkFree(code) ==
    \A re \in {junkFunctionRegex, timestampRegex, evenCheckRegex, tryDummyRegex} :
        matchAll(re, code) = << >>

nonBlankLines(code) == SelectSeq(split(code, "\n"), LAMBDA line : trim(line) # << >>)

JunkAndDummiesRemoved ==
    /\ JunkFree(passes[3].out)
    /\ nonBlankLines(passes[3].out) = nonBlankLines(source)

----------------------------------------------------------------------------
(* One file through the obfuscate flow of lines 312-320 and then through   *)
(* the deobfuscate flow of lines 322-325 with the same configuration, the  *)
(* text of the file after every function being kept in `passes`.           *)

\* the file read at line 312
FlowSources ==
    {<<"l", "e", "t", " ", "x", " ", "=", " ", "1", ";">>,
     <<"a">>}

\* outputs of model.predict: they give controlFlowFlattening alone, and
\* variableEncryption and deadCodeInjection together, each alone and neither
FlowPredictions ==
    { [complexity |-> 7, securityRisk |-> 5, performanceImpact |-> 6, obfuscationLevel |-> 5],
      [complexity |-> 5, securityRisk |-> 7, performanceImpact |-> 5, obfuscationLevel |-> 5],
      [complexity |-> 5, securityRisk |-> 7, performanceImpact |-> 6, obfuscationLevel |-> 5],
      [complexity |-> 5, securityRisk |-> 5, performanceImpact |-> 5, obfuscationLevel |-> 5],
      [complexity |-> 5, securityRisk |-> 5, performanceImpact |-> 6, obfuscationLevel |-> 5] }

FlowInit ==
    /\ source \in FlowSources
    /\ passes = << >>
    /\ pc = "analyzeCode"
    /\ analysis = [none |-> TRUE]
    /\ cursor = 0
    /\ codeAnalyzer = [model |-> "ready"]
    /\ files = << >>
    /\ console = << >>
    /\ workspaceFolders = TRUE
    /\ steps = << >>
    /\ NoEngine
    /\ NoDispatch
    /\ NoPanel

flowRest == <<source, codeAnalyzer, files, console, workspaceFolders, steps, config,
              obfuscate, engineVars, dispatchVars, panelVars, taskVars>>

\* line 314: analyzeCode returns
FlowAnalyzed ==
    /\ pc = "analyzeCode"
    /\ \E m \in FlowPredictions :
          analysis' = [complexity |-> m.complexity, securityRisk |-> m.securityRisk,
                       performanceImpact |-> m.performanceImpact,
                       obfuscationLevel |-> m.obfuscationLevel,
                       suggestedStrategies |-> generateStrategies(m)]
    /\ cursor' = 0
    /\ pc' = "strategies"
    /\ UNCHANGED <<passes, flowRest>>

\* lines 279-291: one turn of the loop of applyObfuscationStrategies
FlowStrategy ==
    /\ pc = "strategies"
    /\ cursor < Len(analysis.suggestedStrategies)
    /\ \E call \in {techniqueCall(analysis.suggestedStrategies[cursor + 1].technique)} :
          \/ /\ call = <<"flattenControlFlow">>
             /\ passes' = Append(passes, [pass |-> "flattenControlFlow", draw |-> << >>,
                                          out |-> flattenControlFlow(content)])
          \/ /\ call = <<"applyVariableHiding">>
             /\ passes' = Append(passes, [pass |-> "applyVariableHiding", draw |-> << >>,
                                          out |-> applyVariableHiding(content)])
          \/ /\ call = <<"injectJunkCode">>
             /\ \E d \in Draws(split(content, "\n"), TRUE) :
                   passes' = Append(passes, [pass |-> "injectJunkCode", draw |-> d,
                                             out |-> injectJunkCode(content, d)])
    /\ cursor' = cursor + 1
    /\ UNCHANGED <<pc, analysis, flowRest>>

\* lines 292 and 316
FlowHide ==
    /\ pc = "strategies"
    /\ cursor = Len(analysis.suggestedStrategies)
    /\ passes' = Append(passes, [pass |-> "applyVariableHiding", draw |-> << >>,
                                 out |-> applyVariableHiding(content)])
    /\ pc' = "injectJunkCode"
    /\ UNCHANGED <<cursor, analysis, flowRest>>

\* line 317
FlowJunk ==
    /\ pc = "injectJunkCode"
    /\ \E d \in Draws(split(content, "\n"), TRUE) :
          passes' = Append(passes, [pass |-> "injectJunkCode", draw |-> d,
                                    out |-> injectJunkCode(content, d)])
    /\ pc' = "interleaveCode"
    /\ UNCHANGED <<cursor, analysis, flowRest>>

\* line 318
FlowInterleave ==
    /\ pc = "interleaveCode"
    /\ \E d \in Draws(split(content, "\n"), FALSE) :
          passes' = Append(passes, [pass |-> "interleaveCode", draw |-> d,
                                    out |-> interleaveCode(content, d)])
    /\ pc' = "enigmaObfuscate"
    /\ UNCHANGED <<cursor, analysis, flowRest>>

\* lines 320 and 328: the text is enciphered and written
FlowEncipher ==
    /\ pc = "enigmaObfuscate"
    /\ passes' = Append(passes, [pass |-> "enigmaObfuscate", draw |-> << >>,
                                 out |-> enigmaObfuscate(content, config)])
    /\ pc' = "written"
    /\ UNCHANGED <<cursor, analysis, flowRest>>

\* lines 312 and 323: the next call reads the file and deciphers it
FlowDecipher ==
    /\ pc = "written"
    /\ passes' = Append(passes, [pass |-> "enigmaDeobfuscate", draw |-> << >>,
                                 out |-> enigmaObfuscate(content, config)])
    /\ pc' = "removeObfuscation"
    /\ UNCHANGED <<cursor, analysis, flowRest>>

\* lines 325 and 328
FlowRemove ==
    /\ pc = "removeObfuscation"
    /\ passes' = Append(passes, [pass |-> "removeObfuscation", draw |-> << >>,
                                 out |-> removeObfuscation(content)])
    /\ pc' = "restored"
    /\ UNCHANGED <<cursor, analysis, flowRest>>

FlowNext ==
    \/ FlowAnalyzed
    \/ FlowStrategy
    \/ FlowHide
    \/ FlowJunk
    \/ FlowInterleave
    \/ FlowEncipher
    \/ FlowDecipher
    \/ FlowRemove

SpecFlow == FlowInit /\ [][FlowNext]_vars

----------------------------------------------------------------------------
(* C33. For every list of strategies the classifier can return, also one   *)
(* with variableEncryption, by which applyVariableHiding runs twice, a     *)
(* file taken through the obfuscate flow and then through the deobfuscate  *)
(* flow with the same configuration has no `(VALUE * 1 + 0)` wrapper left  *)
(* in a declaration.                                                       *)

\* a declaration of the text has a wrapper for its value
WrappedDeclaration(code) ==
    \E k \in DOMAIN matchAll(varRegex, code) :
        matchAll(wrapperRegex,
                 SubSeq(code, matchAll(varRegex, code)[k][1] + 1,
                        matchAll(varRegex, code)[k][Len(matchAll(varRegex, code)[k])])) # << >>

C33_NoWrapperLeft == pc = "restored" => ~WrappedDeclaration(content)

----------------------------------------------------------------------------
(* C34. For every valid configuration (rotors of I..V, reflector A, B or   *)
(* C, any rings, start and plugboard string) and at every rotor position,  *)
(* encipher never returns the letter it was given: for each of the 26      *)
(* letters the letter returned is another one.                             *)

C34_NoLetterToItself ==
    pc = "ready" =>
        /\ calls > 0 => last.letter # last.in
        /\ \A k \in 1..26 : encipher(enigma, ALPHABET[k]).letter # ALPHABET[k]

\* the right rotor has been at all of its 26 positions, in an engine with
\* reflector C, rings and start letters other than A and a plugboard whose
\* pairs share a letter
C34_Witness ==
    /\ pc = "ready"
    /\ calls = 26
    /\ config.reflector = <<"C">>
    /\ config.rings = <<"B", "C", "Z">>
    /\ config.rotorStart = <<"Z", "d", "U">>
    /\ config.plugboard = <<"A", "B", " ", "B", "C">>
    /\ last.in = "A"

----------------------------------------------------------------------------
(* C35. However the handlers of obfuscateFiles, deobfuscateFiles and       *)
(* autoObfuscate interleave, analyzeCode is not called on the shared       *)
(* CodeAnalyzer before its initialize has returned, the guard of line 296  *)
(* being enough for that, and a call made after an initialize that         *)
(* rejected runs initialize again.                                         *)

C35_InitializedBeforeUse ==
    \A t \in DOMAIN tasks :
        /\ tasks[t].pc = "analyzeCode" => codeAnalyzer = [model |-> "ready"]
        /\ tasks[t].afterFailure => tasks[t].guard = "initialize"

----------------------------------------------------------------------------
(* C36. An autoObfuscate run never ends with files of the workspace        *)
(* overwritten while the configuration used for them cannot be recovered:  *)
(* whenever a file was written, the run ends with the passphrase in the    *)
(* secret store and the encrypted configuration in                         *)
(* enigma_config_secret.json, also when the write of the secret store or   *)
(* of the configuration file fails.                                        *)

\* the secret store and the configuration file give the configuration back
Recoverable ==
    /\ "value" \in DOMAIN secrets
    /\ "text" \in DOMAIN disk
    /\ decryptConfig(disk.text, secrets.value) = [value |-> configText(config)]

C36_WrittenFilesRecoverable ==
    (/\ handler.command = "autoObfuscate"
     /\ handler.pc = "done"
     /\ \E k \in 1..Len(files) : files[k].outcome = "written")
    => Recoverable

----------------------------------------------------------------------------
(* C37. After any sequence of autoObfuscate runs, runs without a workspace *)
(* folder and runs whose write of the configuration file fails included,   *)
(* the passphrase stored under enigmaAutoPassphrase decrypts the           *)
(* enigma_config_secret.json that is on disk, whenever there are both.     *)

C37_StoredPassphraseOpensFile ==
    (/\ handler.command = "autoObfuscate"
     /\ handler.pc = "done"
     /\ "value" \in DOMAIN secrets
     /\ "text" \in DOMAIN disk)
    => "value" \in DOMAIN decryptConfig(disk.text, secrets.value)

----------------------------------------------------------------------------
(* The Simulation tab of the webview: the configuration fields, the button *)
(* Initialize Enigma, the input text area whose input events call          *)
(* simulate(), and the read-only output text area.  `enigma` is the        *)
(* script's `let enigma` of line 1188, `webview` holds the fields, what    *)
(* vscode.setState keeps, and the two text areas.  The canvas is left out. *)

\* values of the five configuration fields
SimConfigs == TaskConfigs

\* the body of the loop of simulate for one character of the input
simulateChar(r, char) ==
    IF char \in UpperLetters
    THEN [enigma |-> encipher(r.enigma, char).enigma,
          output |-> r.output \o <<encipher(r.enigma, char).letter>>]
    ELSE [enigma |-> r.enigma, output |-> r.output \o <<char>>]

RECURSIVE simulateLoop(_, _)
simulateLoop(r, input) ==
    IF input = << >> THEN r
    ELSE simulateLoop(simulateChar(r, Head(input)), Tail(input))

\* initSimulation: the engine built from the record of the five fields
initSimulation(fields) == configured(fields)

\* simulate with the engine the script holds: `enigma` afterwards and the
\* value given to the output text area
simulate(e, fields, inputValue) ==
    simulateLoop([enigma |-> IF e = NoEnigma THEN initSimulation(fields) ELSE e,
                  output |-> << >>],
                 textToUpperCase(inputValue))

SimulationInit ==
    /\ webview \in [fields : SimConfigs, state : {Undefined},
                    inputText : {<< >>}, outputText : {<< >>}]
    /\ pc = "load"
    /\ secrets = [none |-> TRUE]
    /\ disk = [none |-> TRUE]
    /\ posted = << >>
    /\ handler = [none |-> TRUE]
    /\ tasks = << >>
    /\ heap = << >>
    /\ running = 0
    /\ workspace = << >>
    /\ source = << >>
    /\ passes = << >>
    /\ codeAnalyzer = Undefined
    /\ files = << >>
    /\ cursor = 0
    /\ console = << >>
    /\ workspaceFolders = TRUE
    /\ analysis = [none |-> TRUE]
    /\ steps = << >>
    /\ NoEngine
    /\ NoDispatch

simulationRest == <<pairsStr, plugboard, config, calls, last, text, obfuscate, idx,
                    transformed, log, passVars, batchVars, dispatchVars,
                    secrets, disk, posted, handler, taskVars>>

\* the user changes the configuration fields
EditFields ==
    /\ \E fields \in SimConfigs \ {webview.fields} :
          webview' = [webview EXCEPT !.fields = fields]
    /\ UNCHANGED <<enigma, pc, simulationRest>>

\* lines 995-1006: the button Initialize Enigma
InitEnigma ==
    /\ webview' = [webview EXCEPT !.state = [enigmaConfig |-> webview.fields]]
    /\ enigma' = initSimulation(webview.fields)
    /\ pc' = "initEnigma"
    /\ UNCHANGED simulationRest

\* line 865: an input event of the input text area, which holds `value` now
Input(value) ==
    /\ webview' = [webview EXCEPT !.inputText = value,
                                  !.outputText = simulate(enigma, webview.fields, value).output]
    /\ enigma' = simulate(enigma, webview.fields, value).enigma
    /\ pc' = "simulate"
    /\ UNCHANGED simulationRest

\* the user types a character at the end of the input
TypeChar ==
    /\ Len(webview.inputText) < MaxLen
    /\ \E c \in Chars : Input(webview.inputText \o <<c>>)

\* the user deletes the last character of the input
DeleteChar ==
    /\ webview.inputText # << >>
    /\ Input(SubSeq(webview.inputText, 1, Len(webview.inputText) - 1))

SimulationNext == EditFields \/ InitEnigma \/ TypeChar \/ DeleteChar

SpecSimulation == SimulationInit /\ [][SimulationNext]_vars

----------------------------------------------------------------------------
(* C38. After any sequence of input events (typing, deleting, retyping)    *)
(* that follows Initialize Enigma, the output text area holds what a fresh *)
(* engine at the configured start position gives for the current input     *)
(* text in upper case.                                                     *)

\* the cipher transform of the input by a fresh engine of configuration cfg
freshOutput(cfg, inputValue) == cipherFrom(configured(cfg), textToUpperCase(inputValue))

C38_OutputOfFreshEngine ==
    (/\ pc = "simulate"
     /\ "enigmaConfig" \in DOMAIN webview.state)
    => webview.outputText = freshOutput(webview.state.enigmaConfig, webview.inputText)

----------------------------------------------------------------------------
(* The Chat tab: the webview enciphers a prompt with the configuration     *)
(* fields and posts it, the panel awaits sendGeminiChat and posts the      *)
(* enciphered answer with the configuration of the prompt, the webview     *)
(* adds it to the chat with a Deobfuscate button.  `webview` holds the     *)
(* fields and the chat, `handler` the sendChatPrompt messages the panel    *)
(* has not answered, `posted` the messages on their way to the webview.    *)

\* most prompts sent in one session of the panel
MaxPrompts == 2

ChatConfigs == TaskConfigs

\* values of the chatPrompt text area
Prompts == {<<"h", "i">>}

\* texts result.response.text() may be
AiResponses == {<<"H", "i">>, <<"O", "k", "7">>}

\* lines 1332-1362 (webview): the function declares no parameter and reads
\* the fields, whatever its caller passes
createEnigmaMachineFromConfig(fields) == configured(fields)

\* lines 1363-1374 (webview): `config` goes to a function that ignores it
webviewEnigmaObfuscate(message, cfg, fields) ==
    simulateLoop([enigma |-> createEnigmaMachineFromConfig(fields), output |-> << >>],
                 textToUpperCase(message)).output

\* lines 1375-1377 (webview)
enigmaDeobfuscate(message, cfg, fields) == webviewEnigmaObfuscate(message, cfg, fields)

\* lines 444-484: the answer enciphered by an engine of the configuration
\* the prompt came with, then put in upper case
encryptedResponse(aiResponse, cfg) == textToUpperCase(cipherFrom(configured(cfg), aiResponse))

\* the message div addMessage appends; aiResponse is the text Gemini gave
\* for an "ai" message, which the program keeps nowhere, and `used` the
\* configuration the click handler of the button built its engine from
ChatMessage(type, message, addDeobfuscateButton, cfg, aiResponse) ==
    [type |-> type, message |-> message, textContent |-> message,
     button |-> addDeobfuscateButton, config |-> cfg, aiResponse |-> aiResponse,
     used |-> Undefined]

ChatInit ==
    /\ webview \in [fields : ChatConfigs, chat : {<< >>}, status : {<< >>}, sent : {0}]
    /\ handler = << >>
    /\ posted = << >>
    /\ pc = "load"
    /\ secrets = [none |-> TRUE]
    /\ disk = [none |-> TRUE]
    /\ tasks = << >>
    /\ heap = << >>
    /\ running = 0
    /\ workspace = << >>
    /\ source = << >>
    /\ passes = << >>
    /\ codeAnalyzer = Undefined
    /\ files = << >>
    /\ cursor = 0
    /\ console = << >>
    /\ workspaceFolders = TRUE
    /\ analysis = [none |-> TRUE]
    /\ steps = << >>
    /\ NoEngine
    /\ NoDispatch

chatRest == <<pc, config, obfuscate, engineVars, passVars, codeAnalyzer, files, cursor,
              workspaceFolders, analysis, steps, dispatchVars, secrets, disk, taskVars>>

\* the user changes the configuration fields
ChatEditFields ==
    /\ \E fields \in ChatConfigs \ {webview.fields} :
          webview' = [webview EXCEPT !.fields = fields]
    /\ UNCHANGED <<handler, posted, console, chatRest>>

\* lines 1382-1401: the button Send with a prompt in the text area
SendChatPrompt ==
    /\ webview.sent < MaxPrompts
    /\ \E prompt \in Prompts :
          /\ webview' =
                [webview EXCEPT
                   !.chat = Append(@, ChatMessage("user",
                                       webviewEnigmaObfuscate(prompt, Undefined, webview.fields),
                                       TRUE, Undefined, Undefined)),
                   !.sent = @ + 1]
          /\ handler' = Append(handler,
                               [command |-> "sendChatPrompt",
                                prompt |-> webviewEnigmaObfuscate(prompt, Undefined, webview.fields),
                                config |-> webview.fields,
                                realprompt |-> prompt])
    /\ UNCHANGED <<posted, console, chatRest>>

without(seq, k) == SubSeq(seq, 1, k - 1) \o SubSeq(seq, k + 1, Len(seq))

\* lines 645-651: sendGeminiChat returns for one of the prompts under way
ChatResponse ==
    /\ \E k \in DOMAIN handler, aiResponse \in AiResponses :
          /\ posted' = Append(posted,
                              [command |-> "chatResponse",
                               response |-> encryptedResponse(aiResponse, handler[k].config),
                               config |-> handler[k].config,
                               aiResponse |-> aiResponse])
          /\ handler' = without(handler, k)
    /\ UNCHANGED <<webview, console, chatRest>>

\* lines 652-655: generateContent rejects
ChatRejects ==
    /\ \E k \in DOMAIN handler :
          /\ console' = Append(console, handler[k].prompt)
          /\ handler' = without(handler, k)
    /\ posted' = Append(posted, [command |-> "status",
                                 text |-> <<"E", "r", "r", "o", "r", " ",
                                              "s", "e", "n", "d", "i", "n",
                                              "g", " ", "p", "r", "o", "m",
                                              "p", "t", " ", "t", "o", " ",
                                              "G", "e", "m", "i", "n", "i",
                                              " ", "A", "I", ".">>])
    /\ UNCHANGED <<webview, chatRest>>

\* lines 943-983: the message listener of the webview
ChatReceive ==
    /\ posted # << >>
    /\ posted' = Tail(posted)
    /\ \/ /\ Head(posted).command = "chatResponse"
          /\ webview' = [webview EXCEPT
                           !.chat = Append(@, ChatMessage("ai", Head(posted).response, TRUE,
                                                          Head(posted).config,
                                                          Head(posted).aiResponse))]
       \/ /\ Head(posted).command = "status"
          /\ webview' = [webview EXCEPT !.status = Head(posted).text]
    /\ UNCHANGED <<handler, console, chatRest>>

\* lines 1412-1416: the button Deobfuscate of a message; setting
\* textContent takes the buttons out of the div
Deobfuscate ==
    /\ \E k \in DOMAIN webview.chat :
          /\ webview.chat[k].button
          /\ webview' =
                [webview EXCEPT
                   !.chat[k].textContent =
                       enigmaDeobfuscate(webview.chat[k].message, webview.chat[k].config,
                                         webview.fields),
                   !.chat[k].used = webview.fields,
                   !.chat[k].button = FALSE]
    /\ UNCHANGED <<handler, posted, console, chatRest>>

ChatNext ==
    \/ ChatEditFields
    \/ SendChatPrompt
    \/ ChatResponse
    \/ ChatRejects
    \/ ChatReceive
    \/ Deobfuscate

SpecChat == ChatInit /\ [][ChatNext]_vars

----------------------------------------------------------------------------
(* C39. Deobfuscate on a chat message deciphers it with the configuration  *)
(* the message was enciphered with: also when the configuration fields     *)
(* were edited between sending the prompt and pressing the button, the     *)
(* text shown for an AI message is the AI response in upper case.          *)

Deobfuscated(m) == m.type = "ai" /\ m.used # Undefined

C39_DeobfuscateShowsResponse ==
    \A k \in DOMAIN webview.chat :
        Deobfuscated(webview.chat[k])
        => webview.chat[k].textContent = textToUpperCase(webview.chat[k].aiResponse)

====
